---- MODULE Spec2Model ----
(***************************************************************************)
(* A model of the physics-rs cloth simulator: the fixed-step driver        *)
(* (simulation/src/fixed_frame.rs), the sphere collider                    *)
(* (simulation/src/collision.rs), the cloth container                      *)
(* (fast_mass_spring/src/cloth.rs) and the fast mass-spring solver         *)
(* (fast_mass_spring/src/solver.rs).                                       *)
(*                                                                         *)
(* Number (f32 in the source) is modelled as an exact rational <<n, d>>    *)
(* in lowest terms with d > 0, plus the value NaN; round-off and overflow  *)
(* of f32 are not modelled.  Vec<T> is a sequence, DVector a function on   *)
(* 0..n-1 and DMatrix a record [r, c, e] with e[row][col], so that the     *)
(* source's 0-based block offsets (3 * i) are kept.                        *)
(***************************************************************************)
EXTENDS Integers, Sequences, FiniteSets, TLC

(***************************************************************************)
(* Bounds of the model.                                                    *)
(***************************************************************************)
\* driver: call times are 0..MaxTime, max_frame_count is 0..MaxFrames,
\* the fixed step is 1..MaxStepH
MaxTime == 6
MaxFrames == 3
MaxStepH == 2
\* construction: at most MaxParticles particles, MaxSprings springs and
\* MaxAttachments attachments in a cloth
MaxParticles == 2
MaxSprings == 2
MaxAttachments == 1
\* whole advance calls: at most MaxCalls of them
MaxCalls == 3

\* filling a cloth: lists of at most MaxListed springs and attachments
MaxListed == 3

\* the grid builders: a resolution of 1..MaxResolution, 0..MaxSegments
\* segments a side
MaxResolution == 3
MaxSegments == 2

\* stepping: at most MaxSteps calls of step(), MaxColliders colliders and
\* MaxIterations iterations per step
MaxSteps == 2
MaxColliders == 2
MaxIterations == 2
\* the exact arithmetic of the model is followed while the numerators and
\* denominators of the positions stay within MaxMagnitude
MaxMagnitude == 64

(***************************************************************************)
(* Number: exact rationals and NaN.                                        *)
(***************************************************************************)
NaN == <<0, 0>>

IsNaN(x) == x[2] = 0

AbsInt(i) == IF i < 0 THEN -i ELSE i

RECURSIVE GCD(_, _)
GCD(a, b) == IF b = 0 THEN a ELSE GCD(b, a % b)

\* the rational n/d in lowest terms
Q(n, d) ==
    IF d = 0 THEN NaN
    ELSE LET g == GCD(AbsInt(n), AbsInt(d))
             s == IF d < 0 THEN -1 ELSE 1
         IN  <<(s * n) \div g, (s * d) \div g>>

Z(i) == <<i, 1>>

Zero == Z(0)
One == Z(1)

Add(x, y) ==
    IF IsNaN(x) \/ IsNaN(y) THEN NaN
    ELSE Q(x[1] * y[2] + y[1] * x[2], x[2] * y[2])

Neg(x) == IF IsNaN(x) THEN NaN ELSE <<-x[1], x[2]>>

Sub(x, y) == Add(x, Neg(y))

Mul(x, y) ==
    IF IsNaN(x) \/ IsNaN(y) THEN NaN
    ELSE Q(x[1] * y[1], x[2] * y[2])

\* IEEE division: 0/0 is NaN.  A quotient x/0 with x # 0 (an infinity)
\* is produced by no division of the program: every divisor is the norm
\* of its dividend or a positive Cholesky pivot.
Div(x, y) ==
    IF IsNaN(x) \/ IsNaN(y) \/ y[1] = 0 THEN NaN
    ELSE Q(x[1] * y[2], x[2] * y[1])

\* IEEE comparisons: every comparison with NaN is false
Lt(x, y) == ~IsNaN(x) /\ ~IsNaN(y) /\ x[1] * y[2] < y[1] * x[2]
Ge(x, y) == ~IsNaN(x) /\ ~IsNaN(y) /\ x[1] * y[2] >= y[1] * x[2]
Gt(x, y) == Lt(y, x)

\* a number above the square root of n whose square fits in 32 bits
MinSqrtCap(n) == IF n < 46340 THEN n + 1 ELSE 46340

\* floor of the square root of a natural number
\* (by bisection: lo * lo <= n < hi * hi)
RECURSIVE ISqrtBetween(_, _, _)
ISqrtBetween(n, lo, hi) ==
    IF hi - lo <= 1 THEN lo
    ELSE LET mid == (lo + hi) \div 2
         IN  IF mid * mid <= n THEN ISqrtBetween(n, mid, hi)
             ELSE ISqrtBetween(n, lo, mid)
ISqrt(n) == ISqrtBetween(n, 0, MinSqrtCap(n))

\* square root: exact on squares of rationals (the only arguments the
\* model's configurations produce), NaN on negative numbers
Sqrt(x) ==
    IF IsNaN(x) \/ x[1] < 0 THEN NaN
    ELSE IF ISqrt(x[1]) * ISqrt(x[1]) = x[1] /\ ISqrt(x[2]) * ISqrt(x[2]) = x[2]
         THEN Q(ISqrt(x[1]), ISqrt(x[2]))
    ELSE Q(ISqrt(x[1] * x[2]), x[2])

(***************************************************************************)
(* DVector and DMatrix.                                                    *)
(***************************************************************************)
\* A DVector or DMatrix owns its storage: the components are computed when
\* the value is built, not when it is read.  TLC tabulates a function
\* when it compares it.
Stored(f) == IF f = f THEN f ELSE f

VecZeros(n) == [i \in 0..(n - 1) |-> Zero]
VecLen(v) == Cardinality(DOMAIN v)

MatZeros(r, c) ==
    [r |-> r, c |-> c, e |-> [i \in 0..(r - 1) |-> [j \in 0..(c - 1) |-> Zero]]]

\* sum of f[0] .. f[n-1], accumulated left to right
RECURSIVE SumTo(_, _)
SumTo(f, n) == IF n = 0 THEN Zero ELSE Add(SumTo(f, n - 1), f[n - 1])

VecAdd(u, v) == Stored([i \in DOMAIN u |-> Add(u[i], v[i])])
VecSub(u, v) == Stored([i \in DOMAIN u |-> Sub(u[i], v[i])])
VecScale(s, v) == Stored([i \in DOMAIN v |-> Mul(s, v[i])])
VecDivBy(v, s) == Stored([i \in DOMAIN v |-> Div(v[i], s)])

\* matrix * vector; a NaN component of v reaches every row, as 0 * NaN is NaN
MatVec(m, v) ==
    Stored([i \in 0..(m.r - 1) |-> SumTo([j \in 0..(m.c - 1) |-> Mul(m.e[i][j], v[j])], m.c)])

MatAdd(a, b) ==
    Stored([r |-> a.r, c |-> a.c,
     e |-> [i \in 0..(a.r - 1) |-> [j \in 0..(a.c - 1) |-> Add(a.e[i][j], b.e[i][j])]]])

MatScale(s, a) ==
    Stored([r |-> a.r, c |-> a.c,
     e |-> [i \in 0..(a.r - 1) |-> [j \in 0..(a.c - 1) |-> Mul(s, a.e[i][j])]]])

\* entry (a, b) of Matrix3::identity()
I3(a, b) == IF a = b THEN One ELSE Zero

\* fixed_view_mut::<3, 3>(r0, c0).add_assign(&(k * i3))
BlockAddAssign(m, r0, c0, k) ==
    Stored([m EXCEPT !.e = [i \in 0..(m.r - 1) |-> [j \in 0..(m.c - 1) |->
        IF i - r0 \in 0..2 /\ j - c0 \in 0..2
        THEN Add(m.e[i][j], Mul(k, I3(i - r0, j - c0)))
        ELSE m.e[i][j]]]])

\* fixed_view_mut::<3, 3>(r0, c0).copy_from(&(k * i3))
BlockCopyFrom(m, r0, c0, k) ==
    Stored([m EXCEPT !.e = [i \in 0..(m.r - 1) |-> [j \in 0..(m.c - 1) |->
        IF i - r0 \in 0..2 /\ j - c0 \in 0..2
        THEN Mul(k, I3(i - r0, j - c0))
        ELSE m.e[i][j]]]])

\* fixed_rows::<3>(r0) as a Vector3 (a function on 0..2)
Rows3(v, r0) ==
    Stored([a \in 0..2 |-> v[r0 + a]])

\* fixed_rows_mut::<3>(r0).copy_from(&w)
Rows3CopyFrom(v, r0, w) ==
    Stored([i \in DOMAIN v |-> IF i - r0 \in 0..2 THEN w[i - r0] ELSE v[i]])

\* Vector3::magnitude / norm
Magnitude(w) ==
    Sqrt(Add(Add(Mul(w[0], w[0]), Mul(w[1], w[1])), Mul(w[2], w[2])))

\* Vector3::normalize: self / self.norm(), NaN in every component for the
\* zero vector
Normalize(w) == VecDivBy(w, Magnitude(w))

(***************************************************************************)
(* nalgebra's Cholesky, used by the solver at solver.rs:34 and :121.  The  *)
(* factor R of A = R * R^T is kept in its square-root-free form            *)
(* R = l * sqrt(d) (l unit lower triangular, d the pivots), which gives    *)
(* the same solution in exact arithmetic; like nalgebra it reads the lower *)
(* triangle of A only and fails on the first pivot that is not > 0.        *)
(***************************************************************************)
RECURSIVE CholeskyColumns(_, _)
CholeskyColumns(A, j) ==
    Stored(IF j = 0
    THEN [ok |-> TRUE, l |-> MatZeros(A.r, A.r).e, d |-> VecZeros(A.r)]
    ELSE LET p == CholeskyColumns(A, j - 1)
             c == j - 1
             dc == Sub(A.e[c][c],
                       SumTo([k \in 0..(c - 1) |->
                                 Mul(Mul(p.l[c][k], p.l[c][k]), p.d[k])], c))
         IN  IF ~p.ok \/ ~Gt(dc, Zero)
             THEN [p EXCEPT !.ok = FALSE]
             ELSE [ok |-> TRUE,
                   l |-> [i \in 0..(A.r - 1) |-> [k \in 0..(A.r - 1) |->
                            IF k # c THEN p.l[i][k]
                            ELSE IF i = c THEN One
                            ELSE IF i < c THEN Zero
                            ELSE Div(Sub(A.e[i][c],
                                         SumTo([q \in 0..(c - 1) |->
                                                   Mul(Mul(p.l[i][q], p.l[c][q]), p.d[q])], c)),
                                     dc)]],
                   d |-> [p.d EXCEPT ![c] = dc]])

\* Cholesky::new(matrix): a factor with ok = FALSE stands for None
CholeskyNew(A) == CholeskyColumns(A, A.r)

\* forward substitution l * z = b, rows 0..i-1
RECURSIVE ForwardRows(_, _, _)
ForwardRows(ch, b, i) ==
    Stored(IF i = 0 THEN [k \in {} |-> Zero]
    ELSE LET z == ForwardRows(ch, b, i - 1)
             r == i - 1
         IN  IF z # z THEN z
             ELSE [k \in 0..r |->
                    IF k < r THEN z[k]
                    ELSE Sub(b[r], SumTo([q \in 0..(r - 1) |-> Mul(ch.l[r][q], z[q])], r))])

\* back substitution l^T * x = w, rows i..n-1
RECURSIVE BackRows(_, _, _, _)
BackRows(ch, w, n, i) ==
    Stored(IF i = n THEN [k \in {} |-> Zero]
    ELSE LET x == BackRows(ch, w, n, i + 1)
         IN  IF x # x THEN x
             ELSE [k \in i..(n - 1) |->
                    IF k > i THEN x[k]
                    ELSE Sub(w[i], SumTo([q \in 0..(n - i - 2) |->
                                             Mul(ch.l[i + 1 + q][i], x[i + 1 + q])], n - i - 1))])

\* Cholesky::solve(&b): the forward substitution, the division by the
\* pivots, then the back substitution (the tests z # z and x # x above and
\* w # w here are never true: they make TLC compute one stage before it
\* starts the next)
CholeskySolve(ch, b) ==
    LET n == VecLen(b)
        z == ForwardRows(ch, b, n)
        w == Stored([i \in 0..(n - 1) |-> Div(z[i], ch.d[i])])
    IN  IF w # w THEN w ELSE BackRows(ch, w, n, 0)

(***************************************************************************)
(* simulation/src/collision.rs                                             *)
(***************************************************************************)
\* Option<Point3>
None == [some |-> FALSE, coords |-> <<>>]
Some(point) == [some |-> TRUE, coords |-> point]

\* the projection if a point on the surface counted as inside
SphereCollisionWithPointStrict(radius, collider_transform, point) ==
    LET center == collider_transform.translation
        dir == VecSub(point, center)
        distance == Magnitude(dir)
    IN  IF Gt(distance, radius) THEN None
        ELSE Some(VecAdd(center, VecScale(radius, VecDivBy(dir, distance))))

\* SphereCollider::compute_collision_with_point: center is the translation
\* of collider_transform, whose rotation is not read
SphereCollisionWithPoint(radius, collider_transform, point) ==
    LET center == collider_transform.translation
        dir == VecSub(point, center)
        distance == Magnitude(dir)
    IN  IF Ge(distance, radius) THEN None
        ELSE Some(VecAdd(center, VecScale(radius, VecDivBy(dir, distance))))

\* TransformedCollider::compute_collision_with_point
compute_collision_with_point(tc, point) ==
    SphereCollisionWithPoint(tc.collider.radius, tc.transform, point)

(***************************************************************************)
(* simulation/src/mesh.rs.  A Mesh is a record [vertices, indices] of two  *)
(* sequences; vertex number v of the source is vertices[v + 1].            *)
(***************************************************************************)
\* an edge that keeps the order of its arguments
EdgeDirected(i0, i1) == <<i0, i1>>

\* Edge::new
Edge(i0, i1) == IF i0 < i1 THEN <<i0, i1>> ELSE <<i1, i0>>

\* Edge::v0 and Edge::v1
v0(edge) == edge[1]
v1(edge) == edge[2]

\* the body of `for edge in edges`: edge_set holds the edges of edge_vec
PushEdge(edge_vec, edge) ==
    IF \E q \in DOMAIN edge_vec : edge_vec[q] = edge THEN edge_vec
    ELSE Append(edge_vec, edge)

\* edge_vec after the first n triangles (mesh.rs:28-40)
RECURSIVE EdgesOfTriangles(_, _)
EdgesOfTriangles(mesh, n) ==
    IF n = 0 THEN <<>>
    ELSE LET triangle_index == n - 1
             i0 == mesh.indices[triangle_index * 3 + 1]
             i1 == mesh.indices[triangle_index * 3 + 2]
             i2 == mesh.indices[triangle_index * 3 + 3]
         IN  PushEdge(PushEdge(PushEdge(EdgesOfTriangles(mesh, n - 1),
                                        Edge(i0, i1)), Edge(i1, i2)), Edge(i2, i0))

\* Mesh::compute_edges
compute_edges(mesh) == EdgesOfTriangles(mesh, Len(mesh.indices) \div 3)

\* Isometry3 * Point3: the rotation, then the translation.  The model has
\* two rotations, the identity and a quarter turn about the z axis.
Rotate(rotation, v) ==
    IF rotation = "identity" THEN v
    ELSE [a \in 0..2 |-> IF a = 0 THEN Neg(v[1]) ELSE IF a = 1 THEN v[0] ELSE v[2]]

IsometryMulPoint(transform, point) ==
    VecAdd(Rotate(transform.rotation, point), transform.translation)

\* GridPlaneBuilder::build: vertex p of the sequence is pushed at
\* i = (p - 1) / num_vertex_height, j = (p - 1) % num_vertex_height, and
\* entries 6c+1..6c+6 of the indices at i = c / height_segments,
\* j = c % height_segments
GridPlaneBuilder_build(g) ==
    LET dx == Div(g.width, Z(g.width_segments))
        dy == Div(g.height, Z(g.height_segments))
        num_vertex_width == g.width_segments + 1
        num_vertex_height == g.height_segments + 1
        vertex(i, j) ==
            IsometryMulPoint(g.transform,
                [a \in 0..2 |->
                    IF a = 0 THEN Sub(Mul(Z(i), dx), Div(g.width, Z(2)))
                    ELSE IF a = 1 THEN Sub(Mul(Z(j), dy), Div(g.height, Z(2)))
                    ELSE Zero])
        index(i, j, slot) ==
            LET i0 == i * num_vertex_height + j
                i1 == i0 + 1
                i2 == i0 + num_vertex_height
                i3 == i2 + 1
            IN  <<i0, i2, i1, i1, i2, i3>>[slot + 1]
    IN  [vertices |-> [p \in 1..(num_vertex_width * num_vertex_height) |->
                          vertex((p - 1) \div num_vertex_height,
                                 (p - 1) % num_vertex_height)],
         indices |-> [p \in 1..(6 * g.width_segments * g.height_segments) |->
                         index(((p - 1) \div 6) \div g.height_segments,
                               ((p - 1) \div 6) % g.height_segments,
                               (p - 1) % 6)]]

(***************************************************************************)
(* fast_mass_spring/src/cloth.rs                                           *)
(***************************************************************************)
\* DVector::from_row_slice
FromRowSlice(sq) == [i \in 0..(Len(sq) - 1) |-> sq[i + 1]]

\* the assert_eq! of Cloth::from_slice
FromSliceAssert(masses, positions) == Len(masses) * 3 = Len(positions)

\* Cloth::from_slice, when its assertion holds
from_slice(masses, positions) ==
    [particle_masses |-> masses,
     particle_positions |-> FromRowSlice(positions),
     prev_particle_positions |-> FromRowSlice(positions),
     springs |-> <<>>,
     attachments |-> <<>>]

\* add_springs if it put the new springs in front
add_springs_in_front(cloth, springs) == [cloth EXCEPT !.springs = springs \o @]

add_springs(cloth, springs) == [cloth EXCEPT !.springs = @ \o springs]

add_attachments(cloth, attachments) == [cloth EXCEPT !.attachments = @ \o attachments]

num_particles(cloth) == VecLen(cloth.particle_positions) \div 3

num_springs(cloth) == Len(cloth.springs)

\* the count if the attachments were left out
num_constraints_springs_only(cloth) == num_springs(cloth)

num_constraints(cloth) == num_springs(cloth) + Len(cloth.attachments)

\* the springs of ClothFromMeshBuilder::build after the first n edges
\* (cloth.rs:88-100)
RECURSIVE MeshSprings(_, _, _)
MeshSprings(b, edges, n) ==
    IF n = 0 THEN <<>>
    ELSE LET edge == edges[n]
             index0 == v0(edge)
             index1 == v1(edge)
             p0 == b.mesh.vertices[index0 + 1]
             p1 == b.mesh.vertices[index1 + 1]
         IN  Append(MeshSprings(b, edges, n - 1),
                    [particle_index_0 |-> index0, particle_index_1 |-> index1,
                     stiffness |-> b.spring_stiffness,
                     rest_length |-> Magnitude(VecSub(p0, p1))])

\* ClothFromMeshBuilder::build; vertices.iter().flatten() lays the
\* coordinates of vertex v at 3v, 3v+1, 3v+2
ClothFromMeshBuilder_build(b) ==
    LET vertices == b.mesh.vertices
        num_particles_ == Len(vertices)
        particle_positions == Stored([r \in 0..(3 * num_particles_ - 1) |->
                                         vertices[(r \div 3) + 1][r % 3]])
        particle_mass == Div(b.mass, Z(num_particles_))
        edges == compute_edges(b.mesh)
    IN  [particle_masses |-> [n \in 1..num_particles_ |-> particle_mass],
         particle_positions |-> particle_positions,
         prev_particle_positions |-> particle_positions,
         springs |-> MeshSprings(b, edges, Len(edges)),
         attachments |-> <<>>]

\* ClothBuilder::build: the vertices (cloth.rs:124-138); entry 3 * n + a is
\* coordinate a of the vertex pushed at i = n / resolution, j = n % resolution
ClothBuilderVertices(b) ==
    LET resolution == b.resolution
        cell_size == Div(b.size, Sub(Z(resolution), One))
        local_point(i, j) ==
            [a \in 0..2 |->
                IF a = 0 THEN Add(Mul(Q(-1, 2), b.size), Mul(Z(i), cell_size))
                ELSE IF a = 1 THEN Add(Mul(Q(-1, 2), b.size), Mul(Z(j), cell_size))
                ELSE Zero]
    IN  Stored([r \in 0..(3 * resolution * resolution - 1) |->
            IsometryMulPoint(b.transform,
                             local_point((r \div 3) \div resolution,
                                         (r \div 3) % resolution))[r % 3]])

\* the closure rest_length (cloth.rs:141-145).  The diagonal of a cell has
\* an irrational length, which Sqrt rounds down to a multiple of its
\* denominator.
GridRestLength(vertices, i, j) ==
    Magnitude(VecSub(Rows3(vertices, i * 3), Rows3(vertices, j * 3)))

GridSpring(vertices, index, index1, stiffness) ==
    [particle_index_0 |-> index, particle_index_1 |-> index1,
     stiffness |-> stiffness, rest_length |-> GridRestLength(vertices, index, index1)]

\* the structural springs pushed by the first n passes of the inner loop
\* (cloth.rs:148-170); pass n - 1 has i = (n - 1) / resolution and
\* j = (n - 1) % resolution
RECURSIVE GridStructuralSprings(_, _, _)
GridStructuralSprings(b, vertices, n) ==
    IF n = 0 THEN <<>>
    ELSE LET resolution == b.resolution
             i == (n - 1) \div resolution
             j == (n - 1) % resolution
             index == i * resolution + j
         IN  GridStructuralSprings(b, vertices, n - 1)
             \o (IF i + 1 < resolution
                 THEN <<GridSpring(vertices, index, (i + 1) * resolution + j,
                                   b.structural_spring_stiffness)>>
                 ELSE <<>>)
             \o (IF j + 1 < resolution
                 THEN <<GridSpring(vertices, index, i * resolution + j + 1,
                                   b.structural_spring_stiffness)>>
                 ELSE <<>>)

\* the shear springs if the second test did not ask for j > 0
RECURSIVE GridShearSpringsUnguarded(_, _, _)
GridShearSpringsUnguarded(b, vertices, n) ==
    IF n = 0 THEN <<>>
    ELSE LET resolution == b.resolution
             i == (n - 1) \div resolution
             j == (n - 1) % resolution
             index == i * resolution + j
         IN  GridShearSpringsUnguarded(b, vertices, n - 1)
             \o (IF i + 1 < resolution /\ j + 1 < resolution
                 THEN <<GridSpring(vertices, index, (i + 1) * resolution + j + 1,
                                   b.shear_spring_stiffness)>>
                 ELSE <<>>)
             \o (IF i + 1 < resolution
                 THEN <<GridSpring(vertices, index, (i + 1) * resolution + j - 1,
                                   b.shear_spring_stiffness)>>
                 ELSE <<>>)

\* the shear springs pushed by the first n passes of the inner loop
\* (cloth.rs:173-195)
RECURSIVE GridShearSprings(_, _, _)
GridShearSprings(b, vertices, n) ==
    IF n = 0 THEN <<>>
    ELSE LET resolution == b.resolution
             i == (n - 1) \div resolution
             j == (n - 1) % resolution
             index == i * resolution + j
         IN  GridShearSprings(b, vertices, n - 1)
             \o (IF i + 1 < resolution /\ j + 1 < resolution
                 THEN <<GridSpring(vertices, index, (i + 1) * resolution + j + 1,
                                   b.shear_spring_stiffness)>>
                 ELSE <<>>)
             \o (IF i + 1 < resolution /\ j > 0
                 THEN <<GridSpring(vertices, index, (i + 1) * resolution + j - 1,
                                   b.shear_spring_stiffness)>>
                 ELSE <<>>)

\* ClothBuilder::build
ClothBuilder_build(b) ==
    LET resolution == b.resolution
        num_vertices == resolution * resolution
        vertices == ClothBuilderVertices(b)
        particle_mass == Div(b.mass, Z(num_vertices))
    IN  [particle_masses |-> [n \in 1..num_vertices |-> particle_mass],
         particle_positions |-> vertices,
         prev_particle_positions |-> vertices,
         springs |-> GridStructuralSprings(b, vertices, num_vertices)
                     \o GridShearSprings(b, vertices, num_vertices),
         attachments |-> <<>>]

(***************************************************************************)
(* fast_mass_spring/src/solver.rs: assembly                                *)
(***************************************************************************)
\* the matrix after the first n attachments (solver.rs:167-173)
RECURSIVE MatrixLAttachments(_, _, _)
MatrixLAttachments(cloth, n, m) ==
    IF n = 0 THEN m
    ELSE LET attachment == cloth.attachments[n]
             k == attachment.stiffness
             i == attachment.particle_index
         IN  BlockAddAssign(MatrixLAttachments(cloth, n - 1, m), 3 * i, 3 * i, k)

\* the matrix if a spring left block (j, i) without its -k
RECURSIVE MatrixLSpringsOneSided(_, _, _)
MatrixLSpringsOneSided(cloth, n, m) ==
    IF n = 0 THEN m
    ELSE LET spring == cloth.springs[n]
             k == spring.stiffness
             i == spring.particle_index_0
             j == spring.particle_index_1
             m0 == MatrixLSpringsOneSided(cloth, n - 1, m)
             m1 == BlockAddAssign(m0, 3 * i, 3 * i, k)
             m2 == BlockAddAssign(m1, 3 * j, 3 * j, k)
         IN  BlockAddAssign(m2, 3 * i, 3 * j, Neg(k))

\* the matrix if a spring overwrote the blocks it should add to
RECURSIVE MatrixLSpringsOverwriting(_, _, _)
MatrixLSpringsOverwriting(cloth, n, m) ==
    IF n = 0 THEN m
    ELSE LET spring == cloth.springs[n]
             k == spring.stiffness
             i == spring.particle_index_0
             j == spring.particle_index_1
             m0 == MatrixLSpringsOverwriting(cloth, n - 1, m)
             m1 == BlockCopyFrom(m0, 3 * i, 3 * i, k)
             m2 == BlockCopyFrom(m1, 3 * j, 3 * j, k)
             m3 == BlockCopyFrom(m2, 3 * i, 3 * j, Neg(k))
         IN  BlockCopyFrom(m3, 3 * j, 3 * i, Neg(k))

\* the matrix after the first n springs (solver.rs:175-191)
RECURSIVE MatrixLSprings(_, _, _)
MatrixLSprings(cloth, n, m) ==
    IF n = 0 THEN m
    ELSE LET spring == cloth.springs[n]
             k == spring.stiffness
             i == spring.particle_index_0
             j == spring.particle_index_1
             m0 == MatrixLSprings(cloth, n - 1, m)
             m1 == BlockAddAssign(m0, 3 * i, 3 * i, k)
             m2 == BlockAddAssign(m1, 3 * j, 3 * j, k)
             m3 == BlockAddAssign(m2, 3 * i, 3 * j, Neg(k))
         IN  BlockAddAssign(m3, 3 * j, 3 * i, Neg(k))

compute_matrix_l(cloth) ==
    LET zeros == MatZeros(3 * num_particles(cloth), 3 * num_particles(cloth))
        att == MatrixLAttachments(cloth, Len(cloth.attachments), zeros)
    IN  MatrixLSprings(cloth, Len(cloth.springs), att)

\* the matrix after the first n attachments (solver.rs:199-206);
\* constraint_index is n - 1
RECURSIVE MatrixJAttachments(_, _, _)
MatrixJAttachments(cloth, n, m) ==
    IF n = 0 THEN m
    ELSE LET attachment == cloth.attachments[n]
             i == attachment.particle_index
             k == attachment.stiffness
             constraint_index == n - 1
         IN  BlockCopyFrom(MatrixJAttachments(cloth, n - 1, m),
                           3 * i, 3 * constraint_index, k)

\* the matrix if both endpoints of a spring got +k
RECURSIVE MatrixJSpringsSameSign(_, _, _)
MatrixJSpringsSameSign(cloth, n, m) ==
    IF n = 0 THEN m
    ELSE LET spring == cloth.springs[n]
             i == spring.particle_index_0
             j == spring.particle_index_1
             k == spring.stiffness
             constraint_index == Len(cloth.attachments) + n - 1
             m0 == MatrixJSpringsSameSign(cloth, n - 1, m)
             m1 == BlockCopyFrom(m0, 3 * i, 3 * constraint_index, k)
         IN  BlockCopyFrom(m1, 3 * j, 3 * constraint_index, k)

\* the matrix after the first n springs (solver.rs:208-219);
\* constraint_index is |attachments| + n - 1
RECURSIVE MatrixJSprings(_, _, _)
MatrixJSprings(cloth, n, m) ==
    IF n = 0 THEN m
    ELSE LET spring == cloth.springs[n]
             i == spring.particle_index_0
             j == spring.particle_index_1
             k == spring.stiffness
             constraint_index == Len(cloth.attachments) + n - 1
             m0 == MatrixJSprings(cloth, n - 1, m)
             m1 == BlockCopyFrom(m0, 3 * i, 3 * constraint_index, k)
         IN  BlockCopyFrom(m1, 3 * j, 3 * constraint_index, Neg(k))

compute_matrix_j(cloth) ==
    LET zeros == MatZeros(3 * num_particles(cloth), 3 * num_constraints(cloth))
        att == MatrixJAttachments(cloth, Len(cloth.attachments), zeros)
    IN  MatrixJSprings(cloth, Len(cloth.springs), att)

\* the matrix after the first n masses (solver.rs:226-230)
RECURSIVE MatrixMMasses(_, _, _)
MatrixMMasses(cloth, n, m) ==
    IF n = 0 THEN m
    ELSE LET i == n - 1
             mass == cloth.particle_masses[n]
         IN  BlockCopyFrom(MatrixMMasses(cloth, n - 1, m), 3 * i, 3 * i, mass)

compute_matrix_m(cloth) ==
    MatrixMMasses(cloth, Len(cloth.particle_masses),
                  MatZeros(3 * num_particles(cloth), 3 * num_particles(cloth)))

\* fixed_view_mut::<3, 3>(3 * i, 3 * j) panics unless the block lies inside
\* the matrix: the indices compute_matrix_l, compute_matrix_j and
\* compute_matrix_m use
ViewsInBounds(cloth) ==
    /\ \A n \in 1..Len(cloth.attachments) :
          cloth.attachments[n].particle_index < num_particles(cloth)
    /\ \A n \in 1..Len(cloth.springs) :
          /\ cloth.springs[n].particle_index_0 < num_particles(cloth)
          /\ cloth.springs[n].particle_index_1 < num_particles(cloth)
    /\ Len(cloth.particle_masses) <= num_particles(cloth)

\* system_matrix of FastMassSpringSolver::new (solver.rs:28-33)
SystemMatrix(cloth, time_step) ==
    LET h2 == Mul(time_step, time_step)
    IN  MatAdd(compute_matrix_m(cloth), MatScale(h2, compute_matrix_l(cloth)))

\* how FastMassSpringSolver::new(cloth, time_step) ends: it returns Self
\* ("ok") or panics, in a matrix view or in the unwrap() of the factor
NewOutcome(cloth, time_step) ==
    IF ~ViewsInBounds(cloth) THEN "panic: index out of bounds"
    ELSE IF ~CholeskyNew(SystemMatrix(cloth, time_step)).ok
         THEN "panic: unwrap on None"
    ELSE "ok"

\* FastMassSpringSolver::new, when it returns
new(cloth, time_step) ==
    LET h2 == Mul(time_step, time_step)
        matrix_j == compute_matrix_j(cloth)
    IN  [cloth |-> cloth,
         vector_d |-> VecZeros(num_constraints(cloth) * 3),
         h2_matrix_j |-> MatScale(h2, matrix_j),
         matrix_m |-> compute_matrix_m(cloth),
         impulse_term |-> VecZeros(num_particles(cloth) * 3),
         inertial_impluse_term |-> VecZeros(num_particles(cloth) * 3),
         time_step |-> time_step,
         h2 |-> h2,
         cholesky |-> CholeskyNew(SystemMatrix(cloth, time_step)),
         num_iterations |-> 2,
         damping |-> One,
         colliders |-> <<>>]

(***************************************************************************)
(* fast_mass_spring/src/solver.rs: operations                              *)
(***************************************************************************)
set_num_iterations(s, num_iterations) == [s EXCEPT !.num_iterations = num_iterations]

\* the impulse term after the first n masses (solver.rs:57-61)
RECURSIVE GravityRows(_, _, _)
GravityRows(s, gravity, n) ==
    IF n = 0 THEN s.impulse_term
    ELSE LET i == n - 1
             mass == s.cloth.particle_masses[n]
         IN  Rows3CopyFrom(GravityRows(s, gravity, n - 1), i * 3,
                           VecScale(s.h2, VecScale(mass, gravity)))

\* the impulse term if set_gravity added to the rows instead of copying
set_gravity_adding(s, gravity) ==
    [s EXCEPT !.impulse_term =
        VecAdd(@, GravityRows(s, gravity, Len(s.cloth.particle_masses)))]

set_gravity(s, gravity) ==
    [s EXCEPT !.impulse_term = GravityRows(s, gravity, Len(s.cloth.particle_masses))]

add_collider(s, collider, transform) ==
    [s EXCEPT !.colliders = Append(@, [collider |-> collider, transform |-> transform])]

\* the inertial term as it would be if the snapshot were taken first:
\* the previous positions are then the current ones
pre_compute_terms_after_snapshot(s) ==
    LET damping == s.damping
        positions == s.cloth.particle_positions
    IN  [s EXCEPT !.inertial_impluse_term =
            VecAdd(MatVec(s.matrix_m,
                          VecSub(VecScale(Add(One, damping), positions),
                                 VecScale(damping, positions))),
                   s.impulse_term)]

\* inertial_impluse_term = M * ((1 + damping) * x - damping * y) + impulse_term
pre_compute_terms(s) ==
    LET damping == s.damping
        positions == s.cloth.particle_positions
        prev_positions == s.cloth.prev_particle_positions
    IN  [s EXCEPT !.inertial_impluse_term =
            VecAdd(MatVec(s.matrix_m,
                          VecSub(VecScale(Add(One, damping), positions),
                                 VecScale(damping, prev_positions))),
                   s.impulse_term)]

\* prev_particle_positions.copy_from(&particle_positions) (solver.rs:81-83)
snapshot_positions(s) ==
    [s EXCEPT !.cloth.prev_particle_positions = s.cloth.particle_positions]

\* vector_d after the first n attachments (solver.rs:130-136)
RECURSIVE VectorDAttachments(_, _, _)
VectorDAttachments(cloth, n, vector_d) ==
    IF n = 0 THEN vector_d
    ELSE LET attachment == cloth.attachments[n]
             d == attachment.target_position
             constraint_index == n - 1
         IN  Rows3CopyFrom(VectorDAttachments(cloth, n - 1, vector_d),
                           constraint_index * 3, d)

\* d of one spring if the direction were not scaled by the rest length
SpringDUnscaled(cloth, spring) ==
    LET p0 == Rows3(cloth.particle_positions, spring.particle_index_0 * 3)
        p1 == Rows3(cloth.particle_positions, spring.particle_index_1 * 3)
        delta == VecSub(p0, p1)
    IN  Normalize(delta)

\* d of one spring (solver.rs:139-147)
SpringD(cloth, spring) ==
    LET p0 == Rows3(cloth.particle_positions, spring.particle_index_0 * 3)
        p1 == Rows3(cloth.particle_positions, spring.particle_index_1 * 3)
        delta == VecSub(p0, p1)
    IN  VecScale(spring.rest_length, Normalize(delta))

\* vector_d if the springs were numbered from constraint 0, before the
\* attachments instead of after them
RECURSIVE VectorDSpringsFromZero(_, _, _)
VectorDSpringsFromZero(cloth, n, vector_d) ==
    IF n = 0 THEN vector_d
    ELSE LET spring == cloth.springs[n]
             constraint_index == n - 1
         IN  Rows3CopyFrom(VectorDSpringsFromZero(cloth, n - 1, vector_d),
                           constraint_index * 3, SpringD(cloth, spring))

\* vector_d after the first n springs (solver.rs:138-152)
RECURSIVE VectorDSprings(_, _, _)
VectorDSprings(cloth, n, vector_d) ==
    IF n = 0 THEN vector_d
    ELSE LET spring == cloth.springs[n]
             constraint_index == Len(cloth.attachments) + n - 1
         IN  Rows3CopyFrom(VectorDSprings(cloth, n - 1, vector_d),
                           constraint_index * 3, SpringD(cloth, spring))

compute_vector_d(cloth, vector_d) ==
    VectorDSprings(cloth, Len(cloth.springs),
                   VectorDAttachments(cloth, Len(cloth.attachments), vector_d))

local_step(s) == [s EXCEPT !.vector_d = compute_vector_d(s.cloth, s.vector_d)]

global_step(s) ==
    LET b == VecAdd(MatVec(s.h2_matrix_j, s.vector_d), s.inertial_impluse_term)
    IN  IF b # b THEN s
        ELSE [s EXCEPT !.cloth.particle_positions = CholeskySolve(s.cholesky, b)]

\* one collider against particles 0..n-1 if every particle were projected
\* from the position of particle 0
RECURSIVE CollideParticlesFromFirst(_, _, _)
CollideParticlesFromFirst(collider, positions, n) ==
    IF n = 0 THEN positions
    ELSE LET i == n - 1
             before == CollideParticlesFromFirst(collider, positions, n - 1)
             new_point == compute_collision_with_point(collider, Rows3(before, 0))
         IN  IF new_point.some THEN Rows3CopyFrom(before, i * 3, new_point.coords)
             ELSE before

\* one collider against particles 0..n-1 (solver.rs:95-101)
RECURSIVE CollideParticles(_, _, _)
CollideParticles(collider, positions, n) ==
    IF n = 0 THEN positions
    ELSE LET i == n - 1
             before == CollideParticles(collider, positions, n - 1)
             new_point == compute_collision_with_point(collider, Rows3(before, i * 3))
         IN  IF new_point.some THEN Rows3CopyFrom(before, i * 3, new_point.coords)
             ELSE before

\* colliders n..1 in turn: the sweep in the reverse of insertion order
RECURSIVE CollideCollidersReversed(_, _, _)
CollideCollidersReversed(s, positions, n) ==
    IF n = 0 THEN positions
    ELSE CollideCollidersReversed(s, CollideParticles(s.colliders[n], positions,
                                                      num_particles(s.cloth)),
                                  n - 1)

\* colliders 1..n in turn (solver.rs:94-102)
RECURSIVE CollideColliders(_, _, _)
CollideColliders(s, positions, n) ==
    IF n = 0 THEN positions
    ELSE CollideParticles(s.colliders[n], CollideColliders(s, positions, n - 1),
                          num_particles(s.cloth))

\* the sweep if it consumed the collider list
solve_collision_draining(s) ==
    [s EXCEPT !.cloth.particle_positions =
                  CollideColliders(s, s.cloth.particle_positions, Len(s.colliders)),
              !.colliders = <<>>]

solve_collision(s) ==
    [s EXCEPT !.cloth.particle_positions =
        CollideColliders(s, s.cloth.particle_positions, Len(s.colliders))]

\* phase(s) once s has been computed: the statements of step() run one
\* after the other
Then(s, phase(_)) == IF s = s THEN phase(s) ELSE s

\* the for loop of step(): n times local_step then global_step
RECURSIVE Iterations(_, _)
Iterations(s, n) ==
    IF n = 0 THEN s
    ELSE Then(Then(Iterations(s, n - 1), local_step), global_step)

\* FastMassSpringSolver::step from call to return
step(s) ==
    LET iterate(t) == Iterations(t, s.num_iterations)
    IN  Then(Then(Then(Then(s, pre_compute_terms), snapshot_positions), iterate),
             solve_collision)

(***************************************************************************)
(* simulation/src/fixed_frame.rs.  Times are whole numbers of a time unit, *)
(* held in f32: a sum or a difference is rounded to the nearest value with *)
(* a significand of 24 bits, a tie to the one whose last bit is 0.         *)
(***************************************************************************)
\* the distance between neighbouring f32 values at magnitude a
RECURSIVE F32Ulp(_)
F32Ulp(a) == IF a < 16777216 THEN 1 ELSE 2 * F32Ulp(a \div 2)

\* the f32 nearest to the whole number x
F32(x) ==
    LET a == IF x < 0 THEN -x ELSE x
        u == F32Ulp(a)
        q == a \div u
        r == a % u
        up == (2 * r > u) \/ (2 * r = u /\ q % 2 = 1)
        m == IF up THEN (q + 1) * u ELSE q * u
    IN  IF x < 0 THEN -m ELSE m

\* f32 `+` and `-`
F32Add(a, b) == F32(a + b)
F32Sub(a, b) == F32(a - b)

\* Option<f32>
NoTick == [some |-> FALSE, value |-> 0]
Tick(t) == [some |-> TRUE, value |-> t]

\* FixedFrames::new
FixedFramesNew(time_step) ==
    [step |-> time_step, last_time |-> 0, first_frame |-> TRUE]

\* FixedFrames::iter
FixedFramesIter(current_time, max_frame_count) ==
    [live |-> TRUE, current_time |-> current_time, frame_index |-> 0,
     max_frame_count |-> max_frame_count]

\* no iterator borrows the driver
NoIter == [live |-> FALSE, current_time |-> 0, frame_index |-> 0, max_frame_count |-> 0]

\* next() with `delta_time > step` in place of `>=`
next_strict(fr, it) ==
    IF it.frame_index >= it.max_frame_count
    THEN [frames |-> fr, it |-> it, ret |-> NoTick]
    ELSE LET it1 == [it EXCEPT !.frame_index = @ + 1]
         IN  IF fr.first_frame
             THEN [frames |-> [fr EXCEPT !.first_frame = FALSE,
                                         !.last_time = it.current_time],
                   it |-> it1, ret |-> Tick(it.current_time)]
             ELSE IF F32Sub(it.current_time, fr.last_time) > fr.step
                  THEN [frames |-> [fr EXCEPT !.last_time = F32Add(@, fr.step)],
                        it |-> it1, ret |-> Tick(F32Add(fr.last_time, fr.step))]
                  ELSE [frames |-> fr, it |-> it1, ret |-> NoTick]

\* next() whose first frame does not store current_time in last_time
next_first_unset(fr, it) ==
    IF it.frame_index >= it.max_frame_count
    THEN [frames |-> fr, it |-> it, ret |-> NoTick]
    ELSE LET it1 == [it EXCEPT !.frame_index = @ + 1]
         IN  IF fr.first_frame
             THEN [frames |-> [fr EXCEPT !.first_frame = FALSE],
                   it |-> it1, ret |-> Tick(it.current_time)]
             ELSE IF F32Sub(it.current_time, fr.last_time) >= fr.step
                  THEN [frames |-> [fr EXCEPT !.last_time = F32Add(@, fr.step)],
                        it |-> it1, ret |-> Tick(F32Add(fr.last_time, fr.step))]
                  ELSE [frames |-> fr, it |-> it1, ret |-> NoTick]

\* next() that resynchronises last_time with current_time on every tick
next_resync(fr, it) ==
    IF it.frame_index >= it.max_frame_count
    THEN [frames |-> fr, it |-> it, ret |-> NoTick]
    ELSE LET it1 == [it EXCEPT !.frame_index = @ + 1]
         IN  IF fr.first_frame
             THEN [frames |-> [fr EXCEPT !.first_frame = FALSE,
                                         !.last_time = it.current_time],
                   it |-> it1, ret |-> Tick(it.current_time)]
             ELSE IF F32Sub(it.current_time, fr.last_time) >= fr.step
                  THEN [frames |-> [fr EXCEPT !.last_time = it.current_time],
                        it |-> it1, ret |-> Tick(it.current_time)]
                  ELSE [frames |-> fr, it |-> it1, ret |-> NoTick]

\* next() with `frame_index > max_frame_count` in place of `>=`
next_cap_inclusive(fr, it) ==
    IF it.frame_index > it.max_frame_count
    THEN [frames |-> fr, it |-> it, ret |-> NoTick]
    ELSE LET it1 == [it EXCEPT !.frame_index = @ + 1]
         IN  IF fr.first_frame
             THEN [frames |-> [fr EXCEPT !.first_frame = FALSE,
                                         !.last_time = it.current_time],
                   it |-> it1, ret |-> Tick(it.current_time)]
             ELSE IF F32Sub(it.current_time, fr.last_time) >= fr.step
                  THEN [frames |-> [fr EXCEPT !.last_time = F32Add(@, fr.step)],
                        it |-> it1, ret |-> Tick(F32Add(fr.last_time, fr.step))]
                  ELSE [frames |-> fr, it |-> it1, ret |-> NoTick]

\* next() that clears first_frame before it tests the cap
next_clearing(fr, it) ==
    IF it.frame_index >= it.max_frame_count
    THEN [frames |-> [fr EXCEPT !.first_frame = FALSE], it |-> it, ret |-> NoTick]
    ELSE LET it1 == [it EXCEPT !.frame_index = @ + 1]
         IN  IF fr.first_frame
             THEN [frames |-> [fr EXCEPT !.first_frame = FALSE,
                                         !.last_time = it.current_time],
                   it |-> it1, ret |-> Tick(it.current_time)]
             ELSE IF F32Sub(it.current_time, fr.last_time) >= fr.step
                  THEN [frames |-> [fr EXCEPT !.last_time = F32Add(@, fr.step)],
                        it |-> it1, ret |-> Tick(F32Add(fr.last_time, fr.step))]
                  ELSE [frames |-> fr, it |-> it1, ret |-> NoTick]

\* FixedFramesIterMut::next: the driver and the iterator after the call,
\* and the value returned
next(fr, it) ==
    IF it.frame_index >= it.max_frame_count
    THEN [frames |-> fr, it |-> it, ret |-> NoTick]
    ELSE LET it1 == [it EXCEPT !.frame_index = @ + 1]
         IN  IF fr.first_frame
             THEN [frames |-> [fr EXCEPT !.first_frame = FALSE,
                                         !.last_time = it.current_time],
                   it |-> it1, ret |-> Tick(it.current_time)]
             ELSE LET delta_time == F32Sub(it.current_time, fr.last_time)
                  IN  IF delta_time >= fr.step
                      THEN [frames |-> [fr EXCEPT !.last_time = F32Add(@, fr.step)],
                            it |-> it1, ret |-> Tick(F32Add(fr.last_time, fr.step))]
                      ELSE [frames |-> fr, it |-> it1, ret |-> NoTick]

\* `for _ in frames.iter(..)` from the point where the iterator is it and
\* the ticks pulled so far are emitted: next() until it returns None
RECURSIVE Pull(_, _, _)
Pull(fr, it, emitted) ==
    LET r == next(fr, it)
    IN  IF r.ret.some THEN Pull(r.frames, r.it, Append(emitted, r.ret.value))
        ELSE [frames |-> r.frames, emitted |-> emitted]

\* the loop of on_frame_loop as one call: the driver after it and the
\* ticks it ran the body for
advance(fr, current_time, max_frame_count) ==
    Pull(fr, FixedFramesIter(current_time, max_frame_count), <<>>)

(***************************************************************************)
(* State.                                                                  *)
(***************************************************************************)
VARIABLES
    frames,     \* the FixedFrames driver
    iter,       \* the FixedFramesIterMut borrowing it, or NoIter
    call,       \* history of the advance call in progress (of the last one)
    cloth,      \* the Cloth being built, before a solver owns it
    solver,     \* the FastMassSpringSolver
    stage,      \* "none", "cloth", "solver" or "panic"
    panic,      \* where the program panicked, "" if it did not
    pc,         \* the position inside step(): "idle" between calls
    iteration,  \* the index of the for loop of step()
    entry,      \* history: what the solver held when step() was called, the
                \* positions at the first call (first), and whether every
                \* call so far had a zero impulse term and no collider (free)
    trace,      \* history: the phases the last step() has run
    nsteps,     \* the number of step() calls made
    args,       \* the arguments of a call of a function on its own
    ret,        \* what that call returned, NoRet before it
    twin        \* a second solver, driven by the same calls as the first

driverVars == <<frames, iter, call>>
buildVars == <<cloth, stage, panic>>
stepVars == <<solver, pc, iteration, entry, trace, nsteps>>
pureVars == <<args, ret, twin>>
vars == <<frames, iter, call, cloth, solver, stage, panic, pc, iteration, entry,
          trace, nsteps, args, ret, twin>>

\* the values of the parts of the state a specification does not use
NoCloth == [particle_masses |-> <<>>, particle_positions |-> <<>>,
            prev_particle_positions |-> <<>>, springs |-> <<>>, attachments |-> <<>>]
NoSolver == [cloth |-> NoCloth]
NoEntry == [x |-> <<>>, y |-> <<>>, z |-> <<>>, num_iterations |-> 0, colliders |-> 0,
            impulse_term |-> <<>>, first |-> <<>>, free |-> TRUE]
NoCall == [entry_last |-> 0, entry_first |-> TRUE, emitted |-> <<>>, done |-> FALSE,
           after_clamp |-> FALSE, clamp_time |-> 0, after_zero |-> FALSE]

NoArgs == [fn |-> "none"]
NoRet == [done |-> FALSE]

PureIdle ==
    /\ args = NoArgs
    /\ ret = NoRet
    /\ twin = NoSolver

DriverIdle ==
    /\ frames = FixedFramesNew(1)
    /\ iter = NoIter
    /\ call = NoCall

BuildIdle ==
    /\ cloth = NoCloth
    /\ stage = "none"
    /\ panic = ""

StepIdle ==
    /\ solver = NoSolver
    /\ pc = "idle"
    /\ iteration = 0
    /\ entry = NoEntry
    /\ trace = <<>>
    /\ nsteps = 0

(***************************************************************************)
(* The fixed-step driver.  An advance(current_time, max_frames) of the     *)
(* callers (drop_cloth_demo.rs:57-63) is `for _ in frames.iter(t, n)`:     *)
(* iter(), then next() until it returns None, then the iterator is         *)
(* dropped.                                                                *)
(***************************************************************************)
\* the call ended, on a driver past its first frame, because
\* max_frame_count ticks were emitted while a whole step of lag was left
Clamped ==
    /\ call.done
    /\ ~frames.first_frame
    /\ iter.max_frame_count >= 1
    /\ Len(call.emitted) = iter.max_frame_count
    /\ iter.current_time - frames.last_time >= frames.step

Iter(current_time, max_frame_count) ==
    /\ ~iter.live
    /\ iter' = FixedFramesIter(current_time, max_frame_count)
    /\ call' = [call EXCEPT !.entry_last = frames.last_time,
                            !.entry_first = frames.first_frame,
                            !.emitted = <<>>,
                            !.done = FALSE]
    /\ UNCHANGED <<frames, buildVars, stepVars, pureVars>>

IterNext ==
    /\ iter.live
    /\ ~call.done
    /\ LET r == next(frames, iter)
       IN  /\ frames' = r.frames
           /\ iter' = r.it
           /\ call' = IF r.ret.some
                      THEN [call EXCEPT !.emitted = Append(@, r.ret.value)]
                      ELSE [call EXCEPT !.done = TRUE]
    /\ UNCHANGED <<buildVars, stepVars, pureVars>>

IterDrop ==
    /\ iter.live
    /\ iter' = [iter EXCEPT !.live = FALSE]
    /\ call' = [call EXCEPT !.after_clamp = Clamped,
                            !.clamp_time = iter.current_time,
                            !.after_zero = call.entry_first /\ iter.max_frame_count = 0]
    /\ UNCHANGED <<frames, buildVars, stepVars, pureVars>>

InitDriver ==
    /\ \E time_step \in 1..MaxStepH : frames = FixedFramesNew(time_step)
    /\ iter = NoIter
    /\ call = NoCall
    /\ BuildIdle
    /\ StepIdle
    /\ PureIdle

NextDriver ==
    \/ \E t \in 0..MaxTime, n \in 0..MaxFrames : Iter(t, n)
    \/ IterNext
    \/ IterDrop

SpecDriver == InitDriver /\ [][NextDriver]_vars

(***************************************************************************)
(* Building a cloth and constructing a solver from it.                     *)
(***************************************************************************)
Vec3(x, y, z) == [a \in 0..2 |-> IF a = 0 THEN x ELSE IF a = 1 THEN y ELSE z]

\* the inputs of the construction
MassValues == {Z(0), Z(1), Z(2)}
TimeSteps == {Z(0), Q(1, 2)}
SpringChoices ==
    [particle_index_0 : 0..MaxParticles, particle_index_1 : 0..MaxParticles,
     stiffness : {Z(2)}, rest_length : {One}]
AttachmentChoices ==
    [particle_index : 0..MaxParticles, target_position : {Vec3(Z(1), Zero, Zero)},
     stiffness : {Z(1)}]

\* n particles in a row on the x axis, as a slice of 3 * n numbers
RowPositions(n) ==
    [q \in 1..(3 * n) |-> IF (q - 1) % 3 = 0 THEN Z((q - 1) \div 3) ELSE Zero]

MassSlices == UNION {[1..n -> MassValues] : n \in 1..MaxParticles}

FromSlice(masses, positions) ==
    /\ stage = "none"
    /\ IF FromSliceAssert(masses, positions)
       THEN /\ cloth' = from_slice(masses, positions)
            /\ stage' = "cloth"
            /\ panic' = panic
       ELSE /\ cloth' = cloth
            /\ stage' = "panic"
            /\ panic' = "panic: assert_eq in from_slice"
    /\ UNCHANGED <<driverVars, stepVars, pureVars>>

AddSprings(springs) ==
    /\ stage = "cloth"
    /\ Len(cloth.springs) + Len(springs) <= MaxSprings
    /\ cloth' = add_springs(cloth, springs)
    /\ UNCHANGED <<stage, panic, driverVars, stepVars, pureVars>>

AddAttachments(attachments) ==
    /\ stage = "cloth"
    /\ Len(cloth.attachments) + Len(attachments) <= MaxAttachments
    /\ cloth' = add_attachments(cloth, attachments)
    /\ UNCHANGED <<stage, panic, driverVars, stepVars, pureVars>>

\* FastMassSpringSolver::new(cloth, time_step); the cloth handed over and
\* the time step stay visible in cloth and entry for the properties
New(time_step) ==
    /\ stage = "cloth"
    /\ IF NewOutcome(cloth, time_step) = "ok"
       THEN /\ solver' = new(cloth, time_step)
            /\ stage' = "solver"
            /\ panic' = panic
       ELSE /\ solver' = solver
            /\ stage' = "panic"
            /\ panic' = NewOutcome(cloth, time_step)
    /\ entry' = [entry EXCEPT !.x = <<time_step>>]
    /\ UNCHANGED <<cloth, driverVars, pc, iteration, trace, nsteps, pureVars>>

InitBuild ==
    /\ DriverIdle
    /\ BuildIdle
    /\ StepIdle
    /\ PureIdle

NextBuild ==
    \/ \E masses \in MassSlices, n \in 1..MaxParticles :
          FromSlice(masses, RowPositions(n))
    \/ \E spring \in SpringChoices : AddSprings(<<spring>>)
    \/ \E attachment \in AttachmentChoices : AddAttachments(<<attachment>>)
    \/ \E time_step \in TimeSteps : New(time_step)

SpecBuild == InitBuild /\ [][NextBuild]_vars

(***************************************************************************)
(* Stepping a solver.  step() is followed through its phases: pc is the    *)
(* phase to run next, and no other operation runs while a step() is in     *)
(* progress (the solver is borrowed mutably).                              *)
(***************************************************************************)
\* the cloths the stepped solvers are constructed from: two particles on
\* the x axis joined by a spring of rest length 2 (coincident, at rest
\* length, or stretched), with or without an attachment of particle 0 to
\* the place where it starts
StepMasses == {<<Z(1), Z(2)>>}
StepTimeSteps == {Q(1, 2)}
StepOffsets == {0, 2, 3}

StepCloth(masses, x1, attached) ==
    LET c0 == from_slice(masses, <<Zero, Zero, Zero, Z(x1), Zero, Zero>>)
        c1 == add_springs(c0, <<[particle_index_0 |-> 0, particle_index_1 |-> 1,
                                 stiffness |-> Z(8), rest_length |-> Z(2)]>>)
    IN  IF attached
        THEN add_attachments(c1, <<[particle_index |-> 0,
                                    target_position |-> Vec3(Zero, Zero, Zero),
                                    stiffness |-> Z(8)]>>)
        ELSE c1

StepCloths ==
    {StepCloth(masses, x1, attached) :
        masses \in StepMasses, x1 \in StepOffsets, attached \in BOOLEAN}

\* the arguments of set_gravity and add_collider
Gravities == {Vec3(Zero, Zero, Zero), Vec3(Z(-4), Zero, Zero)}
Rotations == {"identity", "quarter_turn_about_z"}
ColliderChoices ==
    {[collider |-> [radius |-> Z(2)],
      transform |-> [rotation |-> "identity", translation |-> Vec3(Z(1), Zero, Zero)]],
     [collider |-> [radius |-> Z(2)],
      transform |-> [rotation |-> "identity", translation |-> Vec3(Z(4), Zero, Zero)]],
     [collider |-> [radius |-> Z(1)],
      transform |-> [rotation |-> "identity", translation |-> Vec3(Z(-3), Zero, Zero)]]}

SetNumIterations(num_iterations) ==
    /\ pc = "idle"
    /\ solver' = set_num_iterations(solver, num_iterations)
    /\ UNCHANGED <<pc, iteration, entry, trace, nsteps, driverVars, buildVars, pureVars>>

SetGravity(gravity) ==
    /\ pc = "idle"
    /\ solver' = set_gravity(solver, gravity)
    /\ UNCHANGED <<pc, iteration, entry, trace, nsteps, driverVars, buildVars, pureVars>>

\* add_collider if it projected the particles at once
AddColliderProjecting(collider, transform) ==
    /\ pc = "idle"
    /\ Len(solver.colliders) < MaxColliders
    /\ solver' = solve_collision(add_collider(solver, collider, transform))
    /\ UNCHANGED <<pc, iteration, entry, trace, nsteps, driverVars, buildVars, pureVars>>

AddCollider(collider, transform) ==
    /\ pc = "idle"
    /\ Len(solver.colliders) < MaxColliders
    /\ solver' = add_collider(solver, collider, transform)
    /\ UNCHANGED <<pc, iteration, entry, trace, nsteps, driverVars, buildVars, pureVars>>

\* the positions are numbers the model's arithmetic follows
InRange(s) ==
    \A i \in DOMAIN s.cloth.particle_positions :
        \A x \in {s.cloth.particle_positions[i], s.cloth.prev_particle_positions[i]} :
            AbsInt(x[1]) <= MaxMagnitude /\ x[2] <= MaxMagnitude

\* the phase after the snapshot and after each global step (solver.rs:85-90)
AfterIteration(s, done) == IF done < s.num_iterations THEN "local" ELSE "collision"

\* step() is called: self.pre_compute_terms()
StepPreCompute ==
    /\ pc = "idle"
    /\ nsteps < MaxSteps
    /\ InRange(solver)
    /\ solver' = pre_compute_terms(solver)
    /\ entry' = [x |-> solver.cloth.particle_positions,
                 y |-> solver.cloth.prev_particle_positions,
                 z |-> <<>>,
                 num_iterations |-> solver.num_iterations,
                 colliders |-> Len(solver.colliders),
                 impulse_term |-> solver.impulse_term,
                 first |-> IF nsteps = 0 THEN solver.cloth.particle_positions
                           ELSE entry.first,
                 free |-> /\ entry.free
                          /\ \A r \in DOMAIN solver.impulse_term :
                                solver.impulse_term[r] = Zero
                          /\ Len(solver.colliders) = 0]
    /\ trace' = <<"inertial">>
    /\ pc' = "snapshot"
    /\ nsteps' = nsteps + 1
    /\ UNCHANGED <<iteration, driverVars, buildVars, pureVars>>

StepSnapshot ==
    /\ pc = "snapshot"
    /\ InRange(solver)
    /\ solver' = snapshot_positions(solver)
    /\ trace' = Append(trace, "snapshot")
    /\ iteration' = 0
    /\ pc' = AfterIteration(solver, 0)
    /\ UNCHANGED <<entry, nsteps, driverVars, buildVars, pureVars>>

StepLocal ==
    /\ pc = "local"
    /\ InRange(solver)
    /\ solver' = local_step(solver)
    /\ trace' = Append(trace, "local")
    /\ pc' = "global"
    /\ UNCHANGED <<iteration, entry, nsteps, driverVars, buildVars, pureVars>>

StepGlobal ==
    /\ pc = "global"
    /\ InRange(solver)
    /\ solver' = global_step(solver)
    /\ trace' = Append(trace, "global")
    /\ iteration' = iteration + 1
    /\ pc' = AfterIteration(solver, iteration + 1)
    /\ UNCHANGED <<entry, nsteps, driverVars, buildVars, pureVars>>

\* self.solve_collision(), and step() returns
StepCollision ==
    /\ pc = "collision"
    /\ InRange(solver)
    /\ solver' = solve_collision(solver)
    /\ trace' = Append(trace, "collision")
    /\ entry' = [entry EXCEPT !.z = solver.cloth.particle_positions]
    /\ pc' = "idle"
    /\ UNCHANGED <<iteration, nsteps, driverVars, buildVars, pureVars>>

Init ==
    /\ DriverIdle
    /\ PureIdle
    /\ cloth = NoCloth
    /\ stage = "solver"
    /\ panic = ""
    /\ \E c \in StepCloths, time_step \in StepTimeSteps : solver = new(c, time_step)
    /\ pc = "idle"
    /\ iteration = 0
    /\ entry = NoEntry
    /\ trace = <<>>
    /\ nsteps = 0

Next ==
    \/ \E n \in 0..MaxIterations : SetNumIterations(n)
    \/ \E gravity \in Gravities : SetGravity(gravity)
    \/ \E c \in ColliderChoices : AddCollider(c.collider, c.transform)
    \/ StepPreCompute
    \/ StepSnapshot
    \/ StepLocal
    \/ StepGlobal
    \/ StepCollision

Spec == Init /\ [][Next]_vars

(***************************************************************************)
(* A collider meets a point: TransformedCollider::compute_collision_with_  *)
(* point called on its own.  The offsets of the points from the centre     *)
(* have whole lengths (0, 1, 2, 5, 5, 5, 1, 10), so that magnitude() is    *)
(* exact.                                                                  *)
(***************************************************************************)
SphereRadii == {Q(1, 2), Z(1), Z(2), Z(5), Z(10)}
SphereCentres == {Vec3(Zero, Zero, Zero), Vec3(Z(1), Zero, Zero), Vec3(Z(-3), Z(2), Zero)}
SphereOffsets ==
    {Vec3(Zero, Zero, Zero), Vec3(Z(1), Zero, Zero), Vec3(Z(-2), Zero, Zero),
     Vec3(Zero, Z(5), Zero), Vec3(Z(3), Z(4), Zero), Vec3(Zero, Z(-3), Z(4)),
     Vec3(Zero, Zero, Z(-1)), Vec3(Z(6), Zero, Z(8))}

SphereArgs ==
    {[fn |-> "compute_collision_with_point",
      self |-> [collider |-> [radius |-> radius],
                transform |-> [rotation |-> rotation, translation |-> centre]],
      point |-> VecAdd(centre, offset)] :
        radius \in SphereRadii, rotation \in Rotations,
        centre \in SphereCentres, offset \in SphereOffsets}

ComputeCollisionWithPoint ==
    /\ args.fn = "compute_collision_with_point"
    /\ ~ret.done
    /\ ret' = [done |-> TRUE, value |-> compute_collision_with_point(args.self, args.point)]
    /\ UNCHANGED <<args, twin, driverVars, buildVars, stepVars>>

InitSphere ==
    /\ DriverIdle
    /\ BuildIdle
    /\ StepIdle
    /\ args \in SphereArgs
    /\ ret = NoRet
    /\ twin = NoSolver

NextSphere == ComputeCollisionWithPoint

SpecSphere == InitSphere /\ [][NextSphere]_vars

(***************************************************************************)
(* Two solvers in step.  The second is built from the cloth of the first   *)
(* with its spring list permuted, and every call made on one is made on    *)
(* the other.  The cloth has three particles on a line and three springs   *)
(* of different stiffness and orientation, two of them stretched.          *)
(***************************************************************************)
TwinSteps == 2
TwinColliders == 1

\* the permutations of 1..n, as sequences
SpringOrders(n) ==
    {p \in [1..n -> 1..n] : \A a, b \in 1..n : p[a] = p[b] => a = b}

\* the cloth with spring perm[q] in place q
PermuteSprings(cl, perm) ==
    [cl EXCEPT !.springs = [q \in 1..Len(cl.springs) |-> cl.springs[perm[q]]]]

TwinCloth(x2, attached) ==
    LET c0 == from_slice(<<Z(1), Z(2), Z(1)>>,
                         <<Zero, Zero, Zero, Z(2), Zero, Zero, Z(x2), Zero, Zero>>)
        c1 == add_springs(c0, <<[particle_index_0 |-> 0, particle_index_1 |-> 1,
                                 stiffness |-> Z(8), rest_length |-> Z(2)],
                                [particle_index_0 |-> 1, particle_index_1 |-> 2,
                                 stiffness |-> Z(4), rest_length |-> Z(2)],
                                [particle_index_0 |-> 2, particle_index_1 |-> 0,
                                 stiffness |-> Z(8), rest_length |-> Z(4)]>>)
    IN  IF attached
        THEN add_attachments(c1, <<[particle_index |-> 0,
                                    target_position |-> Vec3(Zero, Zero, Zero),
                                    stiffness |-> Z(8)]>>)
        ELSE c1

TwinCloths == {TwinCloth(x2, attached) : x2 \in {4, 5}, attached \in BOOLEAN}

TwinSetNumIterations(num_iterations) ==
    /\ solver' = set_num_iterations(solver, num_iterations)
    /\ twin' = set_num_iterations(twin, num_iterations)
    /\ UNCHANGED <<pc, iteration, entry, trace, nsteps, args, ret, driverVars, buildVars>>

TwinSetGravity(gravity) ==
    /\ solver' = set_gravity(solver, gravity)
    /\ twin' = set_gravity(twin, gravity)
    /\ UNCHANGED <<pc, iteration, entry, trace, nsteps, args, ret, driverVars, buildVars>>

TwinAddCollider(collider, transform) ==
    /\ Len(solver.colliders) < TwinColliders
    /\ solver' = add_collider(solver, collider, transform)
    /\ twin' = add_collider(twin, collider, transform)
    /\ UNCHANGED <<pc, iteration, entry, trace, nsteps, args, ret, driverVars, buildVars>>

TwinStep ==
    /\ nsteps < TwinSteps
    /\ InRange(solver)
    /\ InRange(twin)
    /\ solver' = step(solver)
    /\ twin' = step(twin)
    /\ nsteps' = nsteps + 1
    /\ UNCHANGED <<pc, iteration, entry, trace, args, ret, driverVars, buildVars>>

InitTwin ==
    /\ DriverIdle
    /\ cloth = NoCloth
    /\ stage = "solver"
    /\ panic = ""
    /\ \E c \in TwinCloths, time_step \in StepTimeSteps, perm \in SpringOrders(3) :
          /\ solver = new(c, time_step)
          /\ twin = new(PermuteSprings(c, perm), time_step)
          /\ args = [fn |-> "permute", perm |-> perm, first |-> c.particle_positions]
    /\ ret = NoRet
    /\ pc = "idle"
    /\ iteration = 0
    /\ entry = NoEntry
    /\ trace = <<>>
    /\ nsteps = 0

NextTwin ==
    \/ \E n \in 0..MaxIterations : TwinSetNumIterations(n)
    \/ \E gravity \in Gravities : TwinSetGravity(gravity)
    \/ \E c \in ColliderChoices : TwinAddCollider(c.collider, c.transform)
    \/ TwinStep

SpecTwin == InitTwin /\ [][NextTwin]_vars

(***************************************************************************)
(* The grid cloth builder called on its own.                               *)
(***************************************************************************)
GridSizes == {Z(2), Z(3)}
GridStiffnesses == {Z(1), Z(8)}
GridMasses == {Z(1), Z(9)}
GridTransforms ==
    {[rotation |-> rotation, translation |-> translation] :
        rotation \in Rotations,
        translation \in {Vec3(Zero, Zero, Zero), Vec3(Z(1), Z(-2), Z(3))}}

ClothBuilderArgs ==
    {[fn |-> "ClothBuilder::build",
      self |-> [size |-> size, resolution |-> resolution,
                structural_spring_stiffness |-> ks, shear_spring_stiffness |-> kh,
                mass |-> mass, transform |-> transform]] :
        size \in GridSizes, resolution \in 1..MaxResolution,
        ks \in GridStiffnesses, kh \in GridStiffnesses,
        mass \in GridMasses, transform \in GridTransforms}

ClothBuilderBuild ==
    /\ args.fn = "ClothBuilder::build"
    /\ ~ret.done
    /\ ret' = [done |-> TRUE, value |-> ClothBuilder_build(args.self)]
    /\ UNCHANGED <<args, twin, driverVars, buildVars, stepVars>>

InitGrid ==
    /\ DriverIdle
    /\ BuildIdle
    /\ StepIdle
    /\ args \in ClothBuilderArgs
    /\ ret = NoRet
    /\ twin = NoSolver

NextGrid == ClothBuilderBuild

SpecGrid == InitGrid /\ [][NextGrid]_vars

(***************************************************************************)
(* A grid plane mesh is built (the only way to a Mesh: its fields are      *)
(* private), and then either its edges are computed or a cloth is built    *)
(* from it.                                                                *)
(***************************************************************************)
PlaneHeights == {Z(2), Z(4)}

MeshArgs ==
    {[fn |-> "GridPlaneBuilder::build",
      self |-> [width |-> Z(2), height |-> height, width_segments |-> ws,
                height_segments |-> hs, transform |-> transform],
      mass |-> mass, spring_stiffness |-> k] :
        height \in PlaneHeights, ws \in 0..MaxSegments, hs \in 0..MaxSegments,
        transform \in GridTransforms, mass \in GridMasses, k \in GridStiffnesses}

GridPlaneBuilderBuild ==
    /\ args.fn = "GridPlaneBuilder::build"
    /\ ret = NoRet
    /\ ret' = [done |-> FALSE, stage |-> "mesh", mesh |-> GridPlaneBuilder_build(args.self)]
    /\ UNCHANGED <<args, twin, driverVars, buildVars, stepVars>>

ComputeEdges ==
    /\ args.fn = "GridPlaneBuilder::build"
    /\ ret # NoRet
    /\ ret.stage = "mesh"
    /\ ret' = [done |-> TRUE, stage |-> "edges", mesh |-> ret.mesh,
               value |-> compute_edges(ret.mesh)]
    /\ UNCHANGED <<args, twin, driverVars, buildVars, stepVars>>

ClothFromMeshBuilderBuild ==
    /\ args.fn = "GridPlaneBuilder::build"
    /\ ret # NoRet
    /\ ret.stage = "mesh"
    /\ ret' = [done |-> TRUE, stage |-> "cloth", mesh |-> ret.mesh,
               value |-> ClothFromMeshBuilder_build(
                             [mesh |-> ret.mesh, mass |-> args.mass,
                              spring_stiffness |-> args.spring_stiffness])]
    /\ UNCHANGED <<args, twin, driverVars, buildVars, stepVars>>

InitMesh ==
    /\ DriverIdle
    /\ BuildIdle
    /\ StepIdle
    /\ args \in MeshArgs
    /\ ret = NoRet
    /\ twin = NoSolver

NextMesh ==
    \/ GridPlaneBuilderBuild
    \/ ComputeEdges
    \/ ClothFromMeshBuilderBuild

SpecMesh == InitMesh /\ [][NextMesh]_vars

(***************************************************************************)
(* Filling a cloth: from_slice, then add_springs and add_attachments with  *)
(* iterators of zero, one or two items, in any order.                      *)
(***************************************************************************)
ListedSprings ==
    {[particle_index_0 |-> 0, particle_index_1 |-> 1, stiffness |-> Z(2), rest_length |-> One],
     [particle_index_0 |-> 1, particle_index_1 |-> 0, stiffness |-> Z(8), rest_length |-> Z(2)]}
ListedAttachments ==
    {[particle_index |-> 0, target_position |-> Vec3(Z(1), Zero, Zero), stiffness |-> Z(1)],
     [particle_index |-> 1, target_position |-> Vec3(Zero, Z(2), Zero), stiffness |-> Z(8)]}
ListedMasses == {<<Z(1), Z(2)>>, <<Z(2), Z(2)>>}
ListedPositions ==
    {RowPositions(2), <<Z(1), Z(2), Z(3), Z(4), Z(5), Z(6)>>, <<Z(1), Z(2), Z(3)>>}

\* the iterators handed to add_springs and add_attachments
ItemsOf(choices) == UNION {[1..n -> choices] : n \in 0..2}

ExtendSprings(springs) ==
    /\ stage = "cloth"
    /\ Len(cloth.springs) + Len(springs) <= MaxListed
    /\ cloth' = add_springs(cloth, springs)
    /\ UNCHANGED <<stage, panic, driverVars, stepVars, pureVars>>

ExtendAttachments(attachments) ==
    /\ stage = "cloth"
    /\ Len(cloth.attachments) + Len(attachments) <= MaxListed
    /\ cloth' = add_attachments(cloth, attachments)
    /\ UNCHANGED <<stage, panic, driverVars, stepVars, pureVars>>

InitCloth ==
    /\ DriverIdle
    /\ BuildIdle
    /\ StepIdle
    /\ PureIdle

NextCloth ==
    \/ \E masses \in ListedMasses, positions \in ListedPositions :
          FromSlice(masses, positions)
    \/ \E springs \in ItemsOf(ListedSprings) : ExtendSprings(springs)
    \/ \E attachments \in ItemsOf(ListedAttachments) : ExtendAttachments(attachments)

SpecCloth == InitCloth /\ [][NextCloth]_vars

(***************************************************************************)
(* The driver through whole advance calls.  ret.calls is the history of    *)
(* the calls made: the arguments of each, the ticks it emitted and the     *)
(* driver it left.  The times are small ones and two neighbouring f32      *)
(* values at 2^24, where the f32 values are the even numbers.              *)
(***************************************************************************)
AdvanceSteps == {1, 10}
AdvanceTimes == {-1, 0, 37, 100, 16777216, 16777218}
AdvanceFrames == {0, 1, 2, 5}

Advance(current_time, max_frame_count) ==
    /\ args.fn = "advance"
    /\ Len(ret.calls) < MaxCalls
    /\ LET r == advance(frames, current_time, max_frame_count)
       IN  /\ frames' = r.frames
           /\ ret' = [done |-> TRUE,
                      calls |-> Append(ret.calls,
                                       [current_time |-> current_time,
                                        max_frame_count |-> max_frame_count,
                                        emitted |-> r.emitted,
                                        frames |-> r.frames])]
    /\ UNCHANGED <<iter, call, args, twin, buildVars, stepVars>>

InitAdvance ==
    /\ \E time_step \in AdvanceSteps : frames = FixedFramesNew(time_step)
    /\ iter = NoIter
    /\ call = NoCall
    /\ BuildIdle
    /\ StepIdle
    /\ args = [fn |-> "advance"]
    /\ ret = [done |-> FALSE, calls |-> <<>>]
    /\ twin = NoSolver

NextAdvance ==
    \E t \in AdvanceTimes, n \in AdvanceFrames : Advance(t, n)

SpecAdvance == InitAdvance /\ [][NextAdvance]_vars

(***************************************************************************)
(* Properties of the fixed-step driver (checked under SpecDriver).         *)
(***************************************************************************)
MinInt(a, b) == IF a <= b THEN a ELSE b

\* the largest n >= 0 with n * h <= delta (0 when there is none)
LargestN(delta, h) ==
    LET S == {n \in 0..MaxTime : n * h <= delta}
    IN  IF S = {} THEN 0 ELSE CHOOSE n \in S : \A m \in S : m <= n

\* C3: in an advance call made after the first tick was consumed, the ticks
\* emitted are last_time + step, last_time + 2 * step, ... (last_time as at
\* call entry), at most max_frame_count of them; last_time is the last
\* emitted tick (unchanged if there is none); and when the call has ended,
\* their number is min(max_frame_count, largest n with n * step <= delta)
C3_TicksPerCall ==
    ~call.entry_first =>
        LET n == Len(call.emitted)
            delta == iter.current_time - call.entry_last
        IN  /\ \A i \in 1..n : call.emitted[i] = call.entry_last + i * frames.step
            /\ n <= iter.max_frame_count
            /\ frames.last_time = IF n = 0 THEN call.entry_last ELSE call.emitted[n]
            /\ call.done =>
                  n = MinInt(iter.max_frame_count, LargestN(delta, frames.step))

\* a call that ended, after the first tick, with two ticks and room for more
C3_Witness ==
    /\ ~call.entry_first
    /\ call.done
    /\ Len(call.emitted) = 2
    /\ iter.max_frame_count = 3

\* C4: the first advance call on a fresh driver emits exactly one tick,
\* at the call's current_time, stores it in last_time and clears
\* first_frame; it emits no second tick whatever max_frame_count is
C4_FirstCall ==
    call.entry_first =>
        /\ Len(call.emitted) <= 1
        /\ Len(call.emitted) = 1 =>
              /\ call.emitted[1] = iter.current_time
              /\ frames.last_time = iter.current_time
              /\ ~frames.first_frame
        /\ (call.done /\ iter.max_frame_count >= 1) => Len(call.emitted) = 1

\* a first call that ended, at a time that is neither 0 nor the step, with
\* room for a second tick
C4_Witness ==
    /\ call.entry_first
    /\ call.done
    /\ iter.max_frame_count >= 2
    /\ iter.current_time = 3
    /\ frames.step = 2
    /\ call.emitted = <<3>>

\* C5 as stated: after a call that stopped at max_frame_count with a whole
\* step of lag left, the lag is dropped, so the next call replays none of
\* the skipped ticks: every tick it emits is later than the clamped call's
\* current_time
C5_LagDropped ==
    (iter.live /\ call.after_clamp) =>
        \A i \in 1..Len(call.emitted) : call.emitted[i] > call.clamp_time

\* C5 as amended: a call emits at most max_frame_count ticks and each tick
\* takes exactly one step off the lag current_time - last_time, nothing
\* else does; so the lag left by a clamped call is kept in last_time: the
\* next call starts one step after the clamped call's last tick, which is
\* not later than the clamped call's current_time, and (made at a time not
\* earlier, with max_frame_count >= 1) does emit that skipped tick
C5_LagCarried ==
    /\ Len(call.emitted) <= iter.max_frame_count
    /\ ~call.entry_first =>
          iter.current_time - frames.last_time =
             (iter.current_time - call.entry_last) - frames.step * Len(call.emitted)
    /\ (iter.live /\ call.after_clamp) =>
          /\ call.entry_last + frames.step <= call.clamp_time
          /\ Len(call.emitted) >= 1 =>
                call.emitted[1] = call.entry_last + frames.step
          /\ (call.done /\ iter.current_time >= call.clamp_time
                /\ iter.max_frame_count >= 1) => Len(call.emitted) >= 1

\* a call after a clamped call that has replayed a skipped tick
C5_Witness ==
    /\ iter.live
    /\ call.after_clamp
    /\ call.done
    /\ Len(call.emitted) >= 1
    /\ call.emitted[1] <= call.clamp_time

(***************************************************************************)
(* Properties of step().                                                   *)
(***************************************************************************)
\* no component of the vector is NaN
AllDefined(v) == \A i \in DOMAIN v : ~IsNaN(v[i])

\* the phases of a step() with n iterations, in order
ExpectedTrace(n) ==
    <<"inertial", "snapshot">>
        \o [q \in 1..(2 * n) |-> IF q % 2 = 1 THEN "local" ELSE "global"]
        \o <<"collision">>

IsPrefix(s, t) == Len(s) <= Len(t) /\ \A q \in 1..Len(s) : s[q] = t[q]

\* m_i * ((1 + damping) * x - damping * y) + impulse, row by row; the
\* product with the dense M carries a NaN of x or y into every row
InertialTerm(s, x, y) ==
    IF AllDefined(x) /\ AllDefined(y)
    THEN [r \in DOMAIN x |->
            Add(Mul(s.cloth.particle_masses[(r \div 3) + 1],
                    Sub(Mul(Add(One, s.damping), x[r]), Mul(s.damping, y[r]))),
                s.impulse_term[r])]
    ELSE [r \in DOMAIN x |-> NaN]

\* C1: a step() runs inertial term, snapshot, num_iterations times (local,
\* global), collision, in this order; while it runs, the inertial term is
\* the one computed from the positions x and previous positions y held at
\* the call; from the snapshot on, and when step() has returned, the
\* previous positions are the positions x held at the call.
C1_PhaseOrder ==
    nsteps > 0 =>
        LET expected == ExpectedTrace(entry.num_iterations)
        IN  /\ IsPrefix(trace, expected)
            /\ pc = "idle" => trace = expected
            /\ pc # "idle" =>
                /\ pc = expected[Len(trace) + 1]
                /\ solver.inertial_impluse_term = InertialTerm(solver, entry.x, entry.y)
            /\ pc # "snapshot" => solver.cloth.prev_particle_positions = entry.x

\* a second step() with two iterations has returned: it started from
\* positions that differed from the previous ones, and moved the particles
C1_Witness ==
    /\ nsteps = 2
    /\ pc = "idle"
    /\ entry.num_iterations = 2
    /\ AllDefined(entry.x) /\ AllDefined(entry.y)
    /\ entry.x # entry.y
    /\ AllDefined(solver.cloth.particle_positions)
    /\ solver.cloth.particle_positions # entry.x

\* the distance of particle i of the positions from the centre of a collider
DistanceTo(positions, i, tc) ==
    Magnitude(VecSub(Rows3(positions, 3 * i), tc.transform.translation))

\* the closed balls of two colliders have at most a boundary point in common
Apart(tc1, tc2) ==
    Ge(Magnitude(VecSub(tc1.transform.translation, tc2.transform.translation)),
       Add(tc1.collider.radius, tc2.collider.radius))

\* collider k of the step is apart from every collider swept after it
ClearOfLater(k) == \A j \in (k + 1)..entry.colliders : Apart(solver.colliders[k], solver.colliders[j])

\* step() has just returned: nothing was called since
StepReturned ==
    /\ nsteps > 0
    /\ pc = "idle"
    /\ Len(solver.colliders) = entry.colliders

\* C2 as stated: when step() has returned, every particle is at a distance
\* >= radius from the centre of every collider of the solver.
C2_NoPenetration ==
    StepReturned =>
        \A i \in 0..(num_particles(solver.cloth) - 1), k \in 1..entry.colliders :
            Ge(DistanceTo(solver.cloth.particle_positions, i, solver.colliders[k]),
               solver.colliders[k].collider.radius)

\* C2, amended: when step() has returned, every particle whose position is
\* defined is at a distance >= radius from the centre of every collider
\* that is apart from all the colliders added after it (the last one added
\* is such a collider).
C2_NoPenetrationLastWins ==
    StepReturned =>
        \A i \in 0..(num_particles(solver.cloth) - 1), k \in 1..entry.colliders :
            (ClearOfLater(k) /\ AllDefined(Rows3(solver.cloth.particle_positions, 3 * i)))
                => Ge(DistanceTo(solver.cloth.particle_positions, i, solver.colliders[k]),
                      solver.colliders[k].collider.radius)

\* a step() with two colliders has returned; a particle was strictly inside
\* the first, which is apart from the second, before the sweep and is not
\* after it
C2_Witness ==
    /\ StepReturned
    /\ entry.colliders = 2
    /\ ClearOfLater(1)
    /\ \E i \in 0..(num_particles(solver.cloth) - 1) :
          /\ Lt(DistanceTo(entry.z, i, solver.colliders[1]),
                solver.colliders[1].collider.radius)
          /\ Ge(DistanceTo(solver.cloth.particle_positions, i, solver.colliders[1]),
                solver.colliders[1].collider.radius)

\* C8 as stated: without colliders, vector_d and the positions never hold
\* a NaN, whatever the springs' endpoints are.
C8_NoNaN ==
    Len(solver.colliders) = 0 =>
        /\ AllDefined(solver.vector_d)
        /\ AllDefined(solver.cloth.particle_positions)

\* the x component of the difference of the positions of particles i and j
DeltaX(cl, i, j) == Sub(cl.particle_positions[3 * i], cl.particle_positions[3 * j])

\* the direction of a spring on the x axis, scaled by its rest length
ScaledDirection(cl, spring) ==
    IF Gt(DeltaX(cl, spring.particle_index_0, spring.particle_index_1), Zero)
    THEN Vec3(spring.rest_length, Zero, Zero)
    ELSE Vec3(Neg(spring.rest_length), Zero, Zero)

NewCalled == Len(entry.x) = 1

\* positive masses, one per particle; stiffnesses >= 0; particle indices in
\* range; the endpoints of a spring distinct
ValidCloth(cl) ==
    /\ Len(cl.particle_masses) = num_particles(cl)
    /\ \A n \in 1..Len(cl.particle_masses) : Gt(cl.particle_masses[n], Zero)
    /\ \A n \in 1..Len(cl.attachments) :
          /\ cl.attachments[n].particle_index < num_particles(cl)
          /\ Ge(cl.attachments[n].stiffness, Zero)
    /\ \A n \in 1..Len(cl.springs) :
          /\ cl.springs[n].particle_index_0 < num_particles(cl)
          /\ cl.springs[n].particle_index_1 < num_particles(cl)
          /\ cl.springs[n].particle_index_0 # cl.springs[n].particle_index_1
          /\ Ge(cl.springs[n].stiffness, Zero)

\* C6 as stated: FastMassSpringSolver::new always returns to its caller, a
\* solver or an error value; it does not panic.
C6_ConstructorReturns == NewCalled => stage = "solver"

\* C7 as stated: a cloth that was accepted has positive masses and
\* particle indices in range, a solver that was constructed has a positive
\* time step, and no input makes the program panic after the boundary
\* that accepted it (the assertion of from_slice stops at the boundary).
C7_InvalidInputRejected ==
    /\ panic \in {"", "panic: assert_eq in from_slice"}
    /\ stage = "cloth" =>
          /\ \A n \in 1..Len(cloth.particle_masses) : Gt(cloth.particle_masses[n], Zero)
          /\ \A n \in 1..Len(cloth.attachments) :
                cloth.attachments[n].particle_index < num_particles(cloth)
          /\ \A n \in 1..Len(cloth.springs) :
                /\ cloth.springs[n].particle_index_0 < num_particles(cloth)
                /\ cloth.springs[n].particle_index_1 < num_particles(cloth)
    /\ stage = "solver" => Gt(entry.x[1], Zero)

\* the sum of the stiffnesses of the attachments of particle p and of the
\* springs that end at p
StiffnessAt(cl, p) ==
    Add(SumTo([n \in 0..(Len(cl.attachments) - 1) |->
                  IF cl.attachments[n + 1].particle_index = p
                  THEN cl.attachments[n + 1].stiffness ELSE Zero],
              Len(cl.attachments)),
        SumTo([n \in 0..(Len(cl.springs) - 1) |->
                  IF p \in {cl.springs[n + 1].particle_index_0,
                            cl.springs[n + 1].particle_index_1}
                  THEN cl.springs[n + 1].stiffness ELSE Zero],
              Len(cl.springs)))

\* the sum of the stiffnesses of the springs between particles p and q
StiffnessBetween(cl, p, q) ==
    SumTo([n \in 0..(Len(cl.springs) - 1) |->
              IF {cl.springs[n + 1].particle_index_0,
                  cl.springs[n + 1].particle_index_1} = {p, q}
              THEN cl.springs[n + 1].stiffness ELSE Zero],
          Len(cl.springs))

\* entry (r, c) of M + h^2 * L, from the definitions of M and L
ReferenceEntry(cl, time_step, r, c) ==
    LET h2 == Mul(time_step, time_step)
        p == r \div 3
        q == c \div 3
    IN  IF r % 3 # c % 3 THEN Zero
        ELSE IF p = q THEN Add(cl.particle_masses[p + 1], Mul(h2, StiffnessAt(cl, p)))
        ELSE Neg(Mul(h2, StiffnessBetween(cl, p, q)))

\* the vectors with components -1, 0, 1 along one axis, not all zero
AxisVectors(n) ==
    {[r \in 0..(3 * n - 1) |-> IF r % 3 = a THEN Z(w[(r \div 3) + 1]) ELSE Zero] :
        a \in 0..2, w \in [1..n -> {-1, 0, 1}] \ {[q \in 1..n |-> 0]}}

\* v^T * A * v
QuadraticForm(A, v) ==
    SumTo([i \in 0..(A.r - 1) |-> Mul(v[i], MatVec(A, v)[i])], A.r)

\* C10: for a valid cloth, the system matrix the constructor assembles is
\* M + h^2 * L entry by entry, it is symmetric, its quadratic form is
\* positive on the test vectors, and its Cholesky factorization succeeds:
\* the constructor returns a solver.
C10_SymmetricPositiveDefinite ==
    (NewCalled /\ ValidCloth(cloth)) =>
        LET A == SystemMatrix(cloth, entry.x[1])
        IN  /\ \A r \in 0..(A.r - 1), c \in 0..(A.c - 1) :
                  /\ A.e[r][c] = A.e[c][r]
                  /\ A.e[r][c] = ReferenceEntry(cloth, entry.x[1], r, c)
            /\ \A v \in AxisVectors(num_particles(cloth)) : Gt(QuadraticForm(A, v), Zero)
            /\ CholeskyNew(A).ok
            /\ stage = "solver"

\* a solver was constructed from a valid cloth of two particles with two
\* springs between them and an attachment
C10_Witness ==
    /\ NewCalled
    /\ stage = "solver"
    /\ ValidCloth(cloth)
    /\ num_particles(cloth) = 2
    /\ Len(cloth.springs) = 2
    /\ Len(cloth.attachments) = 1
    /\ Gt(entry.x[1], Zero)

(***************************************************************************)
(* Further properties of step() and of the solver's operations.            *)
(***************************************************************************)
\* the cloth was at rest when step() was called: positions equal to the
\* previous positions, every spring at its non-zero rest length, every
\* attached particle at its target, a zero impulse term, no collider of
\* the solver penetrated, and at least one iteration to run
RestAtEntry ==
    LET cl == solver.cloth
    IN  /\ AllDefined(entry.x)
        /\ entry.x = entry.y
        /\ \A n \in 1..Len(cl.springs) :
              /\ cl.springs[n].rest_length # Zero
              /\ Magnitude(VecSub(Rows3(entry.x, 3 * cl.springs[n].particle_index_0),
                                  Rows3(entry.x, 3 * cl.springs[n].particle_index_1)))
                    = cl.springs[n].rest_length
        /\ \A n \in 1..Len(cl.attachments) :
              Rows3(entry.x, 3 * cl.attachments[n].particle_index)
                  = cl.attachments[n].target_position
        /\ \A r \in DOMAIN entry.impulse_term : entry.impulse_term[r] = Zero
        /\ \A i \in 0..(num_particles(cl) - 1), k \in 1..entry.colliders :
              Ge(DistanceTo(entry.x, i, solver.colliders[k]),
                 solver.colliders[k].collider.radius)
        /\ entry.num_iterations >= 1

\* C11: a step() called on a cloth at rest (RestAtEntry) leaves every
\* position unchanged, in each of its phases and when it has returned.
C11_RestFixedPoint ==
    (nsteps > 0 /\ RestAtEntry) => solver.cloth.particle_positions = entry.x

\* a step() with two iterations has returned on a cloth at rest that has a
\* spring and an attachment, with a collider touching a particle
C11_Witness ==
    /\ nsteps > 0
    /\ pc = "idle"
    /\ RestAtEntry
    /\ entry.num_iterations = 2
    /\ Len(solver.cloth.springs) = 1
    /\ Len(solver.cloth.attachments) = 1
    /\ entry.colliders >= 1
    /\ \E i \in 0..(num_particles(solver.cloth) - 1) :
          DistanceTo(entry.x, i, solver.colliders[1]) = solver.colliders[1].collider.radius

\* the sum of the masses, and the mass-weighted sum of component a of the
\* positions
TotalMass(cl) ==
    SumTo([i \in 0..(Len(cl.particle_masses) - 1) |-> cl.particle_masses[i + 1]],
          Len(cl.particle_masses))

WeightedSum(cl, positions, a) ==
    SumTo([i \in 0..(Len(cl.particle_masses) - 1) |->
              Mul(cl.particle_masses[i + 1], positions[3 * i + a])],
          Len(cl.particle_masses))

CentreOfMass(cl, positions) ==
    [a \in 0..2 |-> Div(WeightedSum(cl, positions, a), TotalMass(cl))]

\* C12: for a cloth without attachments whose step() calls all ran with a
\* zero impulse term and without colliders, and whose positions are
\* defined (no spring met coincident endpoints), the centre of mass when a
\* step() has returned is the centre of mass of the initial positions.
C12_CentreOfMass ==
    (/\ nsteps > 0
     /\ pc = "idle"
     /\ entry.free
     /\ Len(solver.cloth.attachments) = 0
     /\ AllDefined(solver.cloth.particle_positions))
        => CentreOfMass(solver.cloth, solver.cloth.particle_positions)
               = CentreOfMass(solver.cloth, entry.first)

\* two free step() calls have returned on a cloth without attachments
\* whose stretched spring has moved both particles
C12_Witness ==
    /\ nsteps = 2
    /\ pc = "idle"
    /\ entry.free
    /\ Len(solver.cloth.attachments) = 0
    /\ AllDefined(solver.cloth.particle_positions)
    /\ \A i \in 0..(num_particles(solver.cloth) - 1) :
          Rows3(solver.cloth.particle_positions, 3 * i) # Rows3(entry.first, 3 * i)
    /\ solver.cloth.particle_positions # solver.cloth.prev_particle_positions

\* the 3P vector whose i-th triple is m_i * g * h^2
GravityTerm(s, g) ==
    [r \in 0..(3 * num_particles(s.cloth) - 1) |->
        Mul(Mul(s.cloth.particle_masses[(r \div 3) + 1], g[r % 3]), s.h2)]

\* C13: the impulse term of a fresh solver is zero; a set_gravity(g) makes
\* it the vector whose i-th triple is m_i * g * h^2, whatever it was
\* before; and no step of step() changes it.
C13_SetGravity ==
    /\ solver.impulse_term = GravityTerm(solver, Vec3(Zero, Zero, Zero))
    /\ [][/\ \A g \in Gravities :
                SetGravity(g) => solver'.impulse_term = GravityTerm(solver, g)
          /\ (pc # "idle" \/ pc' # "idle") => solver'.impulse_term = solver.impulse_term
         ]_vars

\* a second step() has run and returned under a gravity that was set
\* after the first one
C13_Witness ==
    /\ nsteps = 2
    /\ pc = "idle"
    /\ entry.impulse_term = solver.impulse_term
    /\ solver.impulse_term = GravityTerm(solver, Vec3(Z(-4), Zero, Zero))
    /\ solver.inertial_impluse_term # InertialTerm([solver EXCEPT !.impulse_term =
                                          GravityTerm(solver, Vec3(Zero, Zero, Zero))],
                                                   entry.x, entry.y)

\* what is fixed at construction
Configuration(s) ==
    [time_step |-> s.time_step, h2 |-> s.h2, matrix_m |-> s.matrix_m,
     h2_matrix_j |-> s.h2_matrix_j, cholesky |-> s.cholesky,
     particle_masses |-> s.cloth.particle_masses,
     springs |-> s.cloth.springs, attachments |-> s.cloth.attachments]

\* what the caller sets between steps
Settings(s) ==
    [num_iterations |-> s.num_iterations, damping |-> s.damping,
     impulse_term |-> s.impulse_term, colliders |-> s.colliders]

\* a transition of step(), as opposed to a call of a setter
StepTransition ==
    StepPreCompute \/ StepSnapshot \/ StepLocal \/ StepGlobal \/ StepCollision

SetterTransition ==
    \/ \E n \in 0..MaxIterations : SetNumIterations(n)
    \/ \E gravity \in Gravities : SetGravity(gravity)
    \/ \E c \in ColliderChoices : AddCollider(c.collider, c.transform)

\* C14: no operation changes h, h^2, M, h^2*J, the Cholesky factor, the
\* masses, the springs or the attachments, and the phases of step() also
\* leave the iteration count, the damping, the impulse term and the
\* collider list as they were.
C14_ConfigurationImmutable ==
    [][/\ Configuration(solver') = Configuration(solver)
       /\ StepTransition => Settings(solver') = Settings(solver)
      ]_vars

\* two steps have moved the particles of a solver whose iteration count,
\* gravity and colliders were all set after construction
C14_Witness ==
    /\ nsteps = 2
    /\ pc = "idle"
    /\ solver.num_iterations = 1
    /\ Len(solver.colliders) = 2
    /\ solver.impulse_term = GravityTerm(solver, Vec3(Z(-4), Zero, Zero))
    /\ solver.cloth.particle_positions # entry.first

\* the last collider added holds particle i
InsideLast(s, i) ==
    /\ Len(s.colliders) > 0
    /\ compute_collision_with_point(s.colliders[Len(s.colliders)],
                                    Rows3(s.cloth.particle_positions, i * 3)).some

\* C15: set_num_iterations, set_gravity and add_collider leave the
\* positions and the previous positions as they were; only the phases of
\* step() write them.
C15_PositionsOnlyByStep ==
    [][SetterTransition =>
          /\ solver'.cloth.particle_positions = solver.cloth.particle_positions
          /\ solver'.cloth.prev_particle_positions = solver.cloth.prev_particle_positions
      ]_vars

\* after a step, a collider has been added around a particle, which has
\* not moved
C15_Witness ==
    /\ nsteps >= 1
    /\ pc = "idle"
    /\ Len(solver.colliders) > entry.colliders
    /\ solver.cloth.particle_positions = entry.z
    /\ \E i \in 0..(num_particles(solver.cloth) - 1) : InsideLast(solver, i)

(***************************************************************************)
(* Properties of the sphere projection (checked under SpecSphere).         *)
(***************************************************************************)
Dot(u, v) == Add(Add(Mul(u[0], v[0]), Mul(u[1], v[1])), Mul(u[2], v[2]))

\* u is t * v for some t > 0
SameRay(u, v) ==
    /\ \A a, b \in 0..2 : Mul(u[a], v[b]) = Mul(u[b], v[a])
    /\ Gt(Dot(u, v), Zero)

\* the collider with the rotation of its transform replaced
WithRotation(tc, rotation) == [tc EXCEPT !.transform.rotation = rotation]

\* C16: with c the translation of the transform, delta = p - c and r the
\* radius: when |delta| >= r the projection returns None; when
\* 0 < |delta| < r it returns c + (delta / |delta|) * r, which lies at
\* distance r from c on the ray from c through p; and the rotation of the
\* transform does not change the result.  (Distances are compared by
\* their squares.)
C16_SphereProjection ==
    ret.done /\ args.fn = "compute_collision_with_point" =>
        LET c == args.self.transform.translation
            r == args.self.collider.radius
            delta == VecSub(args.point, c)
            dist2 == Dot(delta, delta)
            r2 == Mul(r, r)
        IN  /\ Ge(dist2, r2) => ret.value = None
            /\ Gt(dist2, Zero) /\ Lt(dist2, r2) =>
                  /\ ret.value.some
                  /\ Dot(VecSub(ret.value.coords, c), VecSub(ret.value.coords, c)) = r2
                  /\ SameRay(VecSub(ret.value.coords, c), delta)
            /\ \A rotation \in Rotations :
                  ret.value = compute_collision_with_point(
                                  WithRotation(args.self, rotation), args.point)

\* a point off the axes and inside a rotated sphere has been projected
C16_Witness ==
    /\ ret.done
    /\ args.fn = "compute_collision_with_point"
    /\ args.self.transform.rotation # "identity"
    /\ args.self.collider.radius = Z(10)
    /\ VecSub(args.point, args.self.transform.translation) = Vec3(Z(3), Z(4), Zero)
    /\ ret.value.some

(***************************************************************************)
(* Properties of two solvers in step (checked under SpecTwin).             *)
(***************************************************************************)
\* the 3x3 block of m at block row i and block column q
Block(m, i, q) == [a \in 0..2 |-> [b \in 0..2 |-> m.e[3 * i + a][3 * q + b]]]

\* column block q of J' is column block perm[q] of J for the springs, and
\* the column blocks of the attachments are the same
ColumnsPermuted(j1, j2, cl, perm) ==
    LET na == Len(cl.attachments)
    IN  /\ j1.r = j2.r
        /\ j1.c = j2.c
        /\ \A i \in 0..(num_particles(cl) - 1) :
              /\ \A q \in 1..na : Block(j2, i, q - 1) = Block(j1, i, q - 1)
              /\ \A q \in 1..Len(cl.springs) :
                    Block(j2, i, na + q - 1) = Block(j1, i, na + perm[q] - 1)

\* C17: for a cloth and the same cloth with its springs permuted, the two
\* solvers have the same system matrix (hence the same factor), the J of
\* the second is the J of the first with its spring column blocks
\* permuted likewise, and after the same calls the positions and previous
\* positions of the two are the same.
C17_OrderIndependent ==
    args.fn = "permute" =>
        /\ SystemMatrix(twin.cloth, twin.time_step)
               = SystemMatrix(solver.cloth, solver.time_step)
        /\ twin.cholesky = solver.cholesky
        /\ ColumnsPermuted(compute_matrix_j(solver.cloth), compute_matrix_j(twin.cloth),
                           solver.cloth, args.perm)
        /\ ColumnsPermuted(solver.h2_matrix_j, twin.h2_matrix_j, solver.cloth, args.perm)
        /\ twin.cloth.particle_positions = solver.cloth.particle_positions
        /\ twin.cloth.prev_particle_positions = solver.cloth.prev_particle_positions

\* two steps with at least one iteration each have moved the particles of
\* two solvers whose spring lists are in different orders
C17_Witness ==
    /\ args.fn = "permute"
    /\ args.perm = <<3, 1, 2>>
    /\ nsteps = 2
    /\ solver.num_iterations >= 1
    /\ AllDefined(solver.cloth.particle_positions)
    /\ solver.cloth.particle_positions # args.first
    /\ solver.cloth.particle_positions # solver.cloth.prev_particle_positions
    /\ compute_matrix_j(solver.cloth) # compute_matrix_j(twin.cloth)

(***************************************************************************)
(* Properties of the grid cloth builder (checked under SpecGrid).          *)
(***************************************************************************)
\* the index of the particle at row i, column j of a grid of side R
At(R, i, j) == i * R + j

\* where the particle at (i, j) is expected
GridPoint(b, i, j) ==
    LET step_ij == Div(b.size, Z(b.resolution - 1))
        half == Div(b.size, Z(2))
    IN  IsometryMulPoint(b.transform,
                         Vec3(Sub(Mul(Z(i), step_ij), half),
                              Sub(Mul(Z(j), step_ij), half), Zero))

StructuralPairs(R) ==
    {{At(R, i, j), At(R, i + 1, j)} : i \in 0..(R - 2), j \in 0..(R - 1)}
        \cup {{At(R, i, j), At(R, i, j + 1)} : i \in 0..(R - 1), j \in 0..(R - 2)}

ShearPairs(R) ==
    {{At(R, i, j), At(R, i + 1, j + 1)} : i \in 0..(R - 2), j \in 0..(R - 2)}
        \cup {{At(R, i, j), At(R, i + 1, j - 1)} : i \in 0..(R - 2), j \in 1..(R - 1)}

Endpoints(spring) == {spring.particle_index_0, spring.particle_index_1}

\* the springs of the list that join one of the pairs with stiffness k
SpringsOn(springs, pairs, k) ==
    {q \in DOMAIN springs : Endpoints(springs[q]) \in pairs /\ springs[q].stiffness = k}

\* C18: for R >= 2 the grid builder returns R * R particles of mass
\* m / (R * R), the particle of (i, j) at index i * R + j; its springs are
\* one structural spring of stiffness k_s per pair (i,j)-(i+1,j) and
\* (i,j)-(i,j+1) and one shear spring of stiffness k_h per pair
\* (i,j)-(i+1,j+1) and (i,j)-(i+1,j-1), 2R(R-1) and 2(R-1)^2 of them, and
\* nothing else; every spring joins two different particles in range, and
\* no two springs join the same two particles.
C18_GridCloth ==
    (ret.done /\ args.fn = "ClothBuilder::build" /\ args.self.resolution >= 2) =>
        LET b == args.self
            R == b.resolution
            cl == ret.value
            structural == SpringsOn(cl.springs, StructuralPairs(R),
                                    b.structural_spring_stiffness)
            shear == SpringsOn(cl.springs, ShearPairs(R), b.shear_spring_stiffness)
        IN  /\ num_particles(cl) = R * R
            /\ Len(cl.particle_masses) = R * R
            /\ VecLen(cl.prev_particle_positions) = 3 * R * R
            /\ \A n \in 1..(R * R) : cl.particle_masses[n] = Div(b.mass, Z(R * R))
            /\ \A i, j \in 0..(R - 1) :
                  /\ Rows3(cl.particle_positions, 3 * At(R, i, j)) = GridPoint(b, i, j)
                  /\ Rows3(cl.prev_particle_positions, 3 * At(R, i, j)) = GridPoint(b, i, j)
            /\ Cardinality(structural) = 2 * R * (R - 1)
            /\ Cardinality(shear) = 2 * (R - 1) * (R - 1)
            /\ {Endpoints(cl.springs[q]) : q \in structural} = StructuralPairs(R)
            /\ {Endpoints(cl.springs[q]) : q \in shear} = ShearPairs(R)
            /\ StructuralPairs(R) \cap ShearPairs(R) = {}
            /\ structural \cup shear = DOMAIN cl.springs
            /\ \A q \in DOMAIN cl.springs :
                  /\ cl.springs[q].particle_index_0 # cl.springs[q].particle_index_1
                  /\ Endpoints(cl.springs[q]) \subseteq 0..(R * R - 1)
            /\ \A q1, q2 \in DOMAIN cl.springs :
                  Endpoints(cl.springs[q1]) = Endpoints(cl.springs[q2]) => q1 = q2
            /\ Len(cl.attachments) = 0

\* a 3 x 3 grid has been built, turned and moved, with two stiffnesses
C18_Witness ==
    /\ ret.done
    /\ args.fn = "ClothBuilder::build"
    /\ args.self.resolution = 3
    /\ args.self.transform.rotation # "identity"
    /\ args.self.transform.translation # Vec3(Zero, Zero, Zero)
    /\ args.self.structural_spring_stiffness # args.self.shear_spring_stiffness
    /\ Len(ret.value.springs) = 20

(***************************************************************************)
(* Properties of the mesh and of the mesh cloth builder (checked under     *)
(* SpecMesh).                                                              *)
(***************************************************************************)
\* the sides of the triangles of the index list, as sets of two vertices
TriangleSides(mesh) ==
    {{mesh.indices[3 * t + side[1]], mesh.indices[3 * t + side[2]]} :
        t \in 0..((Len(mesh.indices) \div 3) - 1),
        side \in {<<1, 2>>, <<2, 3>>, <<3, 1>>}}

\* edges holds every side of a triangle once, each between two different
\* vertices of the mesh
UniqueUndirected(mesh, edges) ==
    /\ {{v0(edges[q]), v1(edges[q])} : q \in DOMAIN edges} = TriangleSides(mesh)
    /\ Len(edges) = Cardinality(TriangleSides(mesh))
    /\ \A q \in DOMAIN edges :
          /\ v0(edges[q]) # v1(edges[q])
          /\ v0(edges[q]) \in 0..(Len(mesh.vertices) - 1)
          /\ v1(edges[q]) \in 0..(Len(mesh.vertices) - 1)

\* C19: for a mesh made by the grid plane builder, compute_edges returns
\* every side of every triangle once, whichever way round the triangles
\* list it, each between two different vertices of the mesh; and the mesh
\* cloth builder returns |V| particles of mass m / |V| at the vertices
\* and one spring of the given stiffness per edge, between its vertices.
C19_MeshEdges ==
    (args.fn = "GridPlaneBuilder::build" /\ ret.done) =>
        /\ ret.stage = "edges" => UniqueUndirected(ret.mesh, ret.value)
        /\ ret.stage = "cloth" =>
              LET cl == ret.value
                  edges == compute_edges(ret.mesh)
                  V == Len(ret.mesh.vertices)
              IN  /\ UniqueUndirected(ret.mesh, edges)
                  /\ Len(cl.springs) = Len(edges)
                  /\ \A q \in DOMAIN edges :
                        /\ cl.springs[q].particle_index_0 = v0(edges[q])
                        /\ cl.springs[q].particle_index_1 = v1(edges[q])
                        /\ cl.springs[q].stiffness = args.spring_stiffness
                  /\ num_particles(cl) = V
                  /\ Len(cl.particle_masses) = V
                  /\ \A n \in 1..V :
                        /\ cl.particle_masses[n] = Div(args.mass, Z(V))
                        /\ Rows3(cl.particle_positions, 3 * (n - 1)) = ret.mesh.vertices[n]

\* a cloth has been built from a mesh of 2 x 2 cells: 8 triangles, whose
\* 24 sides are 16 edges, 8 of them met twice
C19_Witness ==
    /\ args.fn = "GridPlaneBuilder::build"
    /\ ret.done
    /\ ret.stage = "cloth"
    /\ Len(ret.mesh.indices) = 24
    /\ Len(ret.mesh.vertices) = 9
    /\ Len(compute_edges(ret.mesh)) = 16
    /\ Len(ret.value.springs) = 16

(***************************************************************************)
(* The sizes of the vectors.                                               *)
(***************************************************************************)
\* v is a DVector of n entries
HasLength(v, n) == DOMAIN v = 0..(n - 1)

ClothSizes(cl) ==
    /\ HasLength(cl.particle_positions, 3 * Len(cl.particle_masses))
    /\ HasLength(cl.prev_particle_positions, 3 * Len(cl.particle_masses))

SolverSizes(s) ==
    /\ ClothSizes(s.cloth)
    /\ HasLength(s.vector_d, 3 * (Len(s.cloth.attachments) + Len(s.cloth.springs)))
    /\ HasLength(s.inertial_impluse_term, 3 * Len(s.cloth.particle_masses))
    /\ HasLength(s.impulse_term, 3 * Len(s.cloth.particle_masses))

Appended(old, added, list) ==
    /\ Len(list) = Len(old) + Len(added)
    /\ \A q \in 1..Len(old) : list[q] = old[q]
    /\ \A q \in 1..Len(added) : list[Len(old) + q] = added[q]

\* the masses and the two position vectors are the same in c1 and c2
SameParticles(c1, c2) ==
    /\ c2.particle_masses = c1.particle_masses
    /\ c2.particle_positions = c1.particle_positions
    /\ c2.prev_particle_positions = c1.prev_particle_positions

\* C21: from_slice, when it returns, returns a cloth with no spring and no attachment, the
\* masses and positions it was given, and previous positions equal to the
\* positions; add_springs and add_attachments put their items after the
\* ones already listed, in the order given, and change nothing else; and
\* num_constraints is the number of attachments plus the number of springs.
C21_ClothLists ==
    [][/\ \A masses \in ListedMasses, positions \in ListedPositions :
             (FromSlice(masses, positions) /\ stage' = "cloth") =>
                /\ cloth'.springs = <<>>
                /\ cloth'.attachments = <<>>
                /\ cloth'.particle_masses = masses
                /\ HasLength(cloth'.particle_positions, Len(positions))
                /\ HasLength(cloth'.prev_particle_positions, Len(positions))
                /\ \A q \in 1..Len(positions) :
                      /\ cloth'.particle_positions[q - 1] = positions[q]
                      /\ cloth'.prev_particle_positions[q - 1] = positions[q]
       /\ \A springs \in ItemsOf(ListedSprings) :
             ExtendSprings(springs) =>
                /\ Appended(cloth.springs, springs, cloth'.springs)
                /\ cloth'.attachments = cloth.attachments
                /\ SameParticles(cloth, cloth')
       /\ \A attachments \in ItemsOf(ListedAttachments) :
             ExtendAttachments(attachments) =>
                /\ Appended(cloth.attachments, attachments, cloth'.attachments)
                /\ cloth'.springs = cloth.springs
                /\ SameParticles(cloth, cloth')
       /\ stage' = "cloth" =>
             num_constraints(cloth') = Len(cloth'.attachments) + Len(cloth'.springs)
      ]_vars

\* a cloth holds three springs and three attachments, not all the same,
\* added over several calls
C21_Witness ==
    /\ stage = "cloth"
    /\ Len(cloth.springs) = 3
    /\ Len(cloth.attachments) = 3
    /\ cloth.springs[1] # cloth.springs[2]
    /\ cloth.springs[2] # cloth.springs[3]
    /\ cloth.attachments[1] # cloth.attachments[3]
    /\ cloth.particle_positions[0] = Z(1)

(***************************************************************************)
(* Properties of whole advance calls (checked under SpecAdvance).          *)
(***************************************************************************)
\* call number q of the history was advance(t, n)
WasCall(q, t, n) ==
    /\ Len(ret.calls) >= q
    /\ ret.calls[q].current_time = t
    /\ ret.calls[q].max_frame_count = n

\* C22: on a fresh driver of step 10 (0.01 in units of 0.001),
\* advance(0, 5) emits the one tick 0; advance(37, 5) after it emits 10,
\* 20, 30; and advance(100, 2) after both emits 40, 50.
C22_CatchUpScenario ==
    (args.fn = "advance" /\ frames.step = 10) =>
        /\ WasCall(1, 0, 5) => ret.calls[1].emitted = <<0>>
        /\ (WasCall(1, 0, 5) /\ WasCall(2, 37, 5)) =>
              ret.calls[2].emitted = <<10, 20, 30>>
        /\ (WasCall(1, 0, 5) /\ WasCall(2, 37, 5) /\ WasCall(3, 100, 2)) =>
              ret.calls[3].emitted = <<40, 50>>

\* the three calls of the scenario have been made, in order
C22_Witness ==
    /\ args.fn = "advance"
    /\ frames.step = 10
    /\ WasCall(1, 0, 5)
    /\ WasCall(2, 37, 5)
    /\ WasCall(3, 100, 2)
    /\ frames.last_time = 50

(***************************************************************************)
(* The collision pass as a composition of projections (checked under Spec).*)
(***************************************************************************)
\* what collider tc makes of the point x: its projection, or x itself when
\* it reports no change
Project(tc, x) ==
    LET new_point == compute_collision_with_point(tc, x)
    IN  IF new_point.some THEN new_point.coords ELSE x

\* project_n(...project_1(x)...) for the first n colliders of s
RECURSIVE ProjectThrough(_, _, _)
ProjectThrough(s, x, n) ==
    IF n = 0 THEN x ELSE Project(s.colliders[n], ProjectThrough(s, x, n - 1))

\* project_1(...project_n(x)...): the other order
RECURSIVE ProjectBackThrough(_, _, _)
ProjectBackThrough(s, x, n) ==
    IF n = 0 THEN x
    ELSE ProjectBackThrough(s, Project(s.colliders[n], x), n - 1)

\* no collider of s reports a change for the point as it reaches it
RECURSIVE NoChangeReported(_, _, _)
NoChangeReported(s, x, n) ==
    IF n = 0 THEN TRUE
    ELSE /\ NoChangeReported(s, x, n - 1)
         /\ ~compute_collision_with_point(s.colliders[n],
                                          ProjectThrough(s, x, n - 1)).some

\* C23: when step() has returned, the position of every particle is what
\* the colliders' projections, composed in the order the colliders were
\* added, make of its own position after the last global solve; a particle
\* for which no collider reports a change is where the global solve left it.
C23_ProjectionsComposed ==
    StepReturned =>
        \A i \in 0..(num_particles(solver.cloth) - 1) :
            LET x == Rows3(entry.z, 3 * i)
                after == Rows3(solver.cloth.particle_positions, 3 * i)
            IN  /\ after = ProjectThrough(solver, x, Len(solver.colliders))
                /\ NoChangeReported(solver, x, Len(solver.colliders)) => after = x

\* a step() with two colliders has returned; both moved one particle, the
\* other order would have left it elsewhere, and another particle was moved
\* by neither
C23_Witness ==
    /\ StepReturned
    /\ Len(solver.colliders) = 2
    /\ \E i, j \in 0..(num_particles(solver.cloth) - 1) :
          LET x == Rows3(entry.z, 3 * i)
              y == Rows3(entry.z, 3 * j)
          IN  /\ compute_collision_with_point(solver.colliders[1], x).some
              /\ compute_collision_with_point(solver.colliders[2],
                                              Project(solver.colliders[1], x)).some
              /\ ProjectBackThrough(solver, x, 2) # ProjectThrough(solver, x, 2)
              /\ AllDefined(ProjectThrough(solver, x, 2))
              /\ NoChangeReported(solver, y, 2)
              /\ Rows3(solver.cloth.particle_positions, 3 * j) = y

(***************************************************************************)
(* A point at the centre of a sphere (checked under SpecSphere).           *)
(***************************************************************************)
\* C24 as stated: for a point that coincides with the centre of a sphere
\* collider, compute_collision_with_point returns either no change or a
\* point with defined coordinates at distance radius from the centre.
C24_CentreDefined ==
    (/\ ret.done
     /\ args.fn = "compute_collision_with_point"
     /\ args.point = args.self.transform.translation) =>
        \/ ret.value = None
        \/ /\ ret.value.some
           /\ AllDefined(ret.value.coords)
           /\ LET delta == VecSub(ret.value.coords, args.self.transform.translation)
              IN  Dot(delta, delta) = Mul(args.self.collider.radius,
                                          args.self.collider.radius)

\* the ticks emitted by the first q calls of the history, in order
RECURSIVE TicksEmitted(_)
TicksEmitted(q) ==
    IF q = 0 THEN <<>> ELSE TicksEmitted(q - 1) \o ret.calls[q].emitted

\* the call times of the history never decrease
TimesNonDecreasing ==
    \A q \in 1..(Len(ret.calls) - 1) :
        ret.calls[q].current_time <= ret.calls[q + 1].current_time

\* C25 as stated: over all the calls made on a driver, every tick after the
\* first is later than the tick before it by exactly step; and when the
\* call times never decrease, no call emits a tick later than its own
\* current_time.
C25_TicksEvenlySpaced ==
    args.fn = "advance" =>
        /\ LET ticks == TicksEmitted(Len(ret.calls))
           IN  \A k \in 1..(Len(ticks) - 1) :
                   /\ ticks[k + 1] > ticks[k]
                   /\ ticks[k + 1] = ticks[k] + frames.step
        /\ TimesNonDecreasing =>
              \A q \in 1..Len(ret.calls) :
                  \A k \in 1..Len(ret.calls[q].emitted) :
                      ret.calls[q].emitted[k] <= ret.calls[q].current_time

(***************************************************************************)
(* Requests that yield no tick (checked under SpecDriver).                 *)
(***************************************************************************)
\* a step of the driver that emits no tick: next() returns None, iter()
\* creates an iterator, or an iterator is dropped
NoTickStep ==
    \/ iter.live /\ ~call.done /\ call'.done
    \/ ~iter.live /\ iter'.live
    \/ iter.live /\ ~iter'.live

\* in the call after advance(t, 0) on a fresh driver: the driver is still
\* fresh at entry, and with max_frame_count >= 1 the call emits its own
\* current_time and nothing else
AfterZeroIsFirst ==
    (iter.live /\ call.after_zero) =>
        /\ call.entry_first
        /\ call.entry_last = 0
        /\ call.emitted \in {<<>>, <<iter.current_time>>}
        /\ (call.done /\ iter.max_frame_count >= 1) =>
              call.emitted = <<iter.current_time>>

\* C26: a step of the driver that yields no tick (next() returning None,
\* iter() creating an iterator, an iterator dropped) leaves first_frame and
\* last_time as they were; and the call that follows advance(t, 0) on a
\* fresh driver is treated as the first call: with max_frame_count >= 1 it
\* emits its own current_time.
C26_NoTickNoChange ==
    /\ [][NoTickStep => frames' = frames]_vars
    /\ []AfterZeroIsFirst

\* advance(t, 0) on a fresh driver has been made and dropped; the call
\* after it, at a time other than the initial last_time, has emitted its
\* current_time and ended with next() returning None
C26_Witness ==
    /\ iter.live
    /\ call.after_zero
    /\ call.done
    /\ iter.max_frame_count >= 2
    /\ iter.current_time = 3
    /\ call.emitted = <<3>>
    /\ frames = [step |-> 2, last_time |-> 3, first_frame |-> FALSE]

====
